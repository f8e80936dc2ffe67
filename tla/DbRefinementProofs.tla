-------------------------- MODULE DbRefinementProofs --------------------------
(***************************************************************************)
(* DbServer keeps the promise of AtomicStore: for any number of requests,  *)
(* resources and crashes, what the handlers do together to the database    *)
(* file, the resource set and the cache looks to clients as if each        *)
(* request had been handled at one moment.                                 *)
(*                                                                         *)
(* The locks alone (DbServerProofs) do not show that.  It takes what each  *)
(* handler may rely on between its steps: the document it computed from is *)
(* still the cached one, the file it read is still the durable one, and a  *)
(* resource that nobody is at work on is in the set exactly if it is in    *)
(* the file, with the same document in the cache.                          *)
(***************************************************************************)
EXTENDS DbServerProofs

\* Steps at which the database file is ahead of what clients find, or the
\* resource set and the cache are behind it.
Unsettled == {"install", "register", "cache_new", "unregister", "uncache"}

Busy(r) == \E t \in Task : task[t].pc \in Unsettled /\ Res(t) = r

\* Without such a handler the resource set, the cache and the file agree.
Settled(r) ==
    ~Busy(r) =>
        /\ r \in resources <=> durable[r] # Absent
        /\ cache[r] # NoEntry => cache[r] = durable[r]

\* What a handler knows of the resource whose lock it has.
UpdateOK(t) ==
    task[t].value # Absent /\ task[t].pc \in Locking \cup Replacing \cup {"install"} =>
        /\ Res(t) \in resources
        /\ cache[Res(t)] # NoEntry
        /\ CanUpdate(task[t].req, cache[Res(t)])
        /\ task[t].value = Updated(task[t].req, cache[Res(t)])

SetOK(t) ==
    /\ task[t].pc \in Replacing /\ Op(t) \in SetOps =>
           (Res(t) \in resources <=> Op(t) = "delete_resource")
    /\ task[t].pc \in {"register", "cache_new"} =>
           cache[Res(t)] = NoEntry /\ (Res(t) \in resources <=> task[t].pc = "cache_new")
    /\ task[t].pc \in {"unregister", "uncache"} =>
           (Res(t) \in resources <=> task[t].pc = "unregister")

DurableOK(t) ==
    /\ task[t].pc \in Unsettled => durable[Res(t)] = NewValue(t)
    /\ task[t].pc = "rename" => task[t].root = durable
    /\ task[t].pc = "load" =>
           \A r \in Resource : task[t].result[r] # Absent =>
               r \in Subjects(t) /\ task[t].result[r] = durable[r]

DataOK(t) == UpdateOK(t) /\ SetOK(t) /\ DurableOK(t)

\* The file differs from what is durable by one write at most.
FileInv ==
    /\ (\A t \in Task : task[t].pc # "sync") => file = durable
    /\ \A t \in Task : task[t].pc = "sync" =>
           file = [durable EXCEPT ![Res(t)] = NewValue(t)]

DataInv ==
    /\ Inv
    /\ \A t \in Task : DataOK(t)
    /\ \A r \in Resource : Settled(r)
    /\ FileInv

-----------------------------------------------------------------------------
(***************************************************************************)
(* What one handler does leaves what the others rely on.                   *)
(***************************************************************************)
LEMMA Alone ==
    ASSUME Inv, NEW t \in Task, NEW u \in Task, t # u, NEW r \in Resource,
           r \in Held(task[t]), r \in Held(task[u])
    PROVE  Op(t) = "read" /\ Op(u) = "read"
<1>1. r \in Name
  BY DbAssumption
<1>2. Line(r) \in SUBSET Waiter /\ LineOK(Line(r), r, task)
  BY <1>1, LinesType
<1>3. ModeOf(task[t]) = "read" /\ ModeOf(task[u]) = "read"
  BY <1>2, Exclusive
<1> QED
  BY <1>3 DEF ModeOf, Op

LEMMA Holds ==
    ASSUME Inv, NEW t \in Task, task[t].pc \notin {"idle", "done"},
           task[t].pc \in Locking => task[t].value # Absent
    PROVE  /\ Names(task[t]) \subseteq Held(task[t])
           /\ Res(t) \in Held(task[t])
           /\ Res(t) \in Resource
<1>1. Names(task[t]) \cap task[t].todo = {}
  BY NamesType DEF Inv, Shape, InOrder
<1>2. Names(task[t]) \subseteq Held(task[t])
  BY <1>1 DEF Held, Wanted
<1> QED
  BY <1>2, NamesType

LEMMA Frame ==
    ASSUME Inv, NEW t \in Task, NEW u \in Task, t # u, DataOK(u), Others(task, task', t),
           NEW r \in Held(task[t]), r \in Resource,
           \A x \in Resource \ {r} :
               /\ cache'[x] = cache[x] /\ durable'[x] = durable[x]
               /\ x \in resources' <=> x \in resources,
           Op(t) = "read" \/ task[u].pc = "rename" => durable' = durable
    PROVE  DataOK(u)'
<1>1. task'[u] = task[u]
  BY DEF Others
<1>2. Res(u)' = Res(u) /\ Op(u)' = Op(u) /\ Subjects(u)' = Subjects(u) /\ NewValue(u)' = NewValue(u)
  BY <1>1 DEF Res, Op, Subjects, NewValue
<1>3. ASSUME task[u].pc \notin {"idle", "done"},
             task[u].pc \in Locking => task[u].value # Absent, Op(u) # "read"
      PROVE  /\ Res(u) \in Resource
             /\ cache'[Res(u)] = cache[Res(u)] /\ durable'[Res(u)] = durable[Res(u)]
             /\ Res(u) \in resources' <=> Res(u) \in resources
  <2>1. Res(u) \in Held(task[u]) /\ Res(u) \in Resource
    BY <1>3, Holds
  <2>2. Res(u) # r
    BY <1>3, <2>1, Alone
  <2> QED
    BY <2>1, <2>2
<1>4. Shape(task[u])
  BY DEF Inv
<1>5. UpdateOK(u)'
  <2> SUFFICES ASSUME task[u].value # Absent, task[u].pc \in Locking \cup Replacing \cup {"install"}
               PROVE  UpdateOK(u)'
    BY <1>1 DEF UpdateOK
  <2>1. Op(u) # "read" /\ task[u].pc \notin {"idle", "done"}
    BY <1>4 DEF Shape, Allowed, Op, UpdateOps, ItemOps, ObjectOps, Locking, Replacing
  <2> QED
    BY <1>1, <1>2, <1>3, <2>1 DEF UpdateOK, DataOK
<1>6. SetOK(u)'
  <2>1. CASE /\ task[u].pc \in Replacing => Op(u) \notin SetOps
             /\ task[u].pc \notin {"register", "cache_new", "unregister", "uncache"}
    BY <1>1, <1>2, <2>1 DEF SetOK
  <2>2. CASE \/ task[u].pc \in Replacing /\ Op(u) \in SetOps
             \/ task[u].pc \in {"register", "cache_new", "unregister", "uncache"}
    <3>1. Op(u) # "read" /\ task[u].pc \notin {"idle", "done"} \cup Locking
      BY <1>4, <2>2 DEF Shape, Allowed, Op, SetOps, Locking, Replacing
    <3> QED
      BY <1>1, <1>2, <1>3, <3>1 DEF SetOK, DataOK
  <2> QED
    BY <2>1, <2>2
<1>7. DurableOK(u)'
  <2>1. task[u].pc \in Unsettled => durable'[Res(u)] = NewValue(u)
    <3> SUFFICES ASSUME task[u].pc \in Unsettled
                 PROVE  durable'[Res(u)] = NewValue(u)
      OBVIOUS
    <3>1. Op(u) # "read" /\ task[u].pc \notin {"idle", "done"} \cup Locking
      BY <1>4 DEF Shape, Allowed, Op, UpdateOps, ItemOps, ObjectOps, Unsettled, Locking
    <3> QED
      BY <1>3, <3>1 DEF DataOK, DurableOK
  <2>2. task[u].pc = "rename" => task[u].root = durable'
    BY DEF DataOK, DurableOK
  <2>3. ASSUME task[u].pc = "load", NEW x \in Resource, task[u].result[x] # Absent
        PROVE  x \in Subjects(u) /\ task[u].result[x] = durable'[x]
    <3>1. x \in Subjects(u) /\ task[u].result[x] = durable[x]
      BY <2>3 DEF DataOK, DurableOK
    <3>2. x \in Held(task[u])
      BY <2>3, <3>1, Holds, NamesType DEF Locking
    <3>3. Op(t) = "read" \/ x # r
      BY <3>2, Alone
    <3> QED
      BY <3>1, <3>3
  <2> QED
    BY <1>1, <1>2, <2>1, <2>2, <2>3 DEF DurableOK
<1> QED
  BY <1>5, <1>6, <1>7 DEF DataOK

\* The database file, in a step between which and the next nobody replaces it.
LEMMA FileStays ==
    ASSUME Inv, FileInv, NEW t \in Task, Others(task, task', t),
           UNCHANGED <<file, durable>>, task[t].pc # "sync", task'[t].pc # "sync"
    PROVE  FileInv'
<1>1. \A u \in Task \ {t} : task'[u] = task[u]
  BY DEF Others
<1>2. \A u \in Task \ {t} : Res(u)' = Res(u) /\ NewValue(u)' = NewValue(u)
  BY <1>1 DEF Res, NewValue, Op
<1>3. (\A u \in Task : task'[u].pc # "sync") => \A u \in Task : task[u].pc # "sync"
  BY <1>1
<1> QED
  BY <1>1, <1>2, <1>3 DEF FileInv

LEMMA OthersSettled ==
    ASSUME Inv, NEW t \in Task, Others(task, task', t), NEW x \in Resource, Settled(x),
           UNCHANGED <<cache[x], durable[x], x \in resources>>,
           task[t].pc \in Unsettled => Res(t) # x
    PROVE  Settled(x)'
<1>1. Busy(x) => Busy(x)'
  <2> SUFFICES ASSUME NEW u \in Task, task[u].pc \in Unsettled, Res(u) = x
               PROVE  Busy(x)'
    BY DEF Busy
  <2>1. task'[u] = task[u]
    BY DEF Others
  <2>2. Res(u)' = Res(u)
    BY <2>1 DEF Res
  <2> QED
    BY <2>1, <2>2 DEF Busy
<1> QED
  BY <1>1 DEF Settled

\* A step that changes no data.
LEMMA DataStays ==
    ASSUME DataInv, Inv', NEW t \in Task, Others(task, task', t),
           UNCHANGED <<file, durable, cache, resources>>,
           task[t].pc \notin Unsettled \cup {"sync"},
           task'[t].pc # "sync",
           DataOK(t)'
    PROVE  DataInv'
<1>1. FileInv'
  BY FileStays DEF DataInv
<1>2. \A r \in Resource : Settled(r)'
  BY OthersSettled DEF DataInv
<1>3. ASSUME NEW u \in Task, u # t
      PROVE  DataOK(u)'
  <2>1. task'[u] = task[u]
    BY <1>3 DEF Others
  <2>2. Res(u)' = Res(u) /\ Op(u)' = Op(u) /\ Subjects(u)' = Subjects(u) /\ NewValue(u)' = NewValue(u)
    BY <2>1 DEF Res, Op, Subjects, NewValue
  <2>3. UpdateOK(u) /\ SetOK(u) /\ DurableOK(u)
    BY DEF DataInv, DataOK
  <2>4. UpdateOK(u)'
    BY <2>1, <2>2, <2>3 DEF UpdateOK
  <2>5. SetOK(u)'
    BY <2>1, <2>2, <2>3 DEF SetOK
  <2>6. DurableOK(u)'
    BY <2>1, <2>2, <2>3 DEF DurableOK
  <2> QED
    BY <2>4, <2>5, <2>6 DEF DataOK
<1> QED
  BY <1>1, <1>2, <1>3 DEF DataInv

\* A step that changes what is kept of the resource r.
LEMMA DataMoves ==
    ASSUME DataInv, Inv', NEW t \in Task, Others(task, task', t),
           NEW r \in Held(task[t]), r \in Resource,
           \A x \in Resource \ {r} :
               /\ cache'[x] = cache[x] /\ durable'[x] = durable[x]
               /\ x \in resources' <=> x \in resources,
           Op(t) = "read" \/ task[t].pc \notin InFile => durable' = durable,
           task[t].pc \in Unsettled => Res(t) = r,
           DataOK(t)', Settled(r)', FileInv'
    PROVE  DataInv'
<1>1. \A x \in Resource : Settled(x)'
  BY OthersSettled DEF DataInv
<1>2. ASSUME NEW u \in Task, u # t
      PROVE  DataOK(u)'
  <2>1. task[u].pc = "rename" => task[t].pc \notin InFile
    BY <1>2 DEF DataInv, Inv, FileLockInv, InFile
  <2> QED
    BY <1>2, <2>1, Frame DEF DataInv
<1> QED
  BY <1>1, <1>2 DEF DataInv

LEMMA DoneOK ==
    ASSUME NEW t \in Task, task'[t].pc = "done"
    PROVE  DataOK(t)'
BY DEF DataOK, UpdateOK, SetOK, DurableOK, Locking, Replacing, Unsettled

\* Who has the lock of a resource, and is not yet changing it, finds the cache,
\* the file and the resource set in agreement.
LEMMA AtHand ==
    ASSUME DataInv, NEW t \in Task, NEW r \in Resource, r \in Held(task[t]),
           task[t].pc \notin Unsettled \cup {"sync"}
    PROVE  /\ ~Busy(r)
           /\ r \in resources <=> durable[r] # Absent
           /\ cache[r] # NoEntry => cache[r] = durable[r]
           /\ file[r] = durable[r]
           /\ Found(r) = durable[r]
           /\ Visible[r] = durable[r]
<1>1. ASSUME NEW u \in Task, task[u].pc \in Unsettled \cup {"sync"}, Res(u) = r
      PROVE  FALSE
  <2>1. Op(u) # "read" /\ task[u].pc \notin {"idle", "done"} \cup Locking
    BY <1>1 DEF DataInv, Inv, Shape, Allowed, Op, UpdateOps, ItemOps, ObjectOps, SetOps,
                Unsettled, Locking, Replacing
  <2>2. Res(u) \in Held(task[u])
    BY <2>1, Holds DEF DataInv
  <2> QED
    BY <1>1, <2>1, <2>2, Alone DEF DataInv
<1>2. ~Busy(r)
  BY <1>1 DEF Busy
<1>3. /\ r \in resources <=> durable[r] # Absent
      /\ cache[r] # NoEntry => cache[r] = durable[r]
  BY <1>2 DEF DataInv, Settled
<1>4. file[r] = durable[r]
  <2>1. CASE \A u \in Task : task[u].pc # "sync"
    BY <2>1 DEF DataInv, FileInv
  <2>2. ASSUME NEW u \in Task, task[u].pc = "sync"
        PROVE  file[r] = durable[r]
    <3>1. file = [durable EXCEPT ![Res(u)] = NewValue(u)]
      BY <2>2 DEF DataInv, FileInv
    <3>2. Res(u) # r
      BY <1>1, <2>2
    <3>3. durable \in Content
      BY DEF DataInv, Inv, TypeOK
    <3> QED
      BY <3>1, <3>2, <3>3 DEF Content
  <2> QED
    BY <2>1, <2>2
<1>5. cache[r] \in {NoEntry} \cup Snapshot
  BY DEF DataInv, Inv, TypeOK
<1> QED
  BY <1>2, <1>3, <1>4, <1>5 DEF Found, Visible

-----------------------------------------------------------------------------
(***************************************************************************)
(* What a client is shown of a step.                                       *)
(***************************************************************************)
Requests == [t \in Task |-> task[t].req]
States == [t \in Task |-> AbstractStatus(t)]
Results == [t \in Task |-> IF task[t].status = "ok" THEN task[t].result ELSE NoKeys]

\* The two modules mean the same by an update.
LEMMA SameUpdates ==
    ASSUME NEW req, NEW doc
    PROVE  /\ Promise!CanUpdate(req, doc) <=> CanUpdate(req, doc)
           /\ Promise!Updated(req, doc) = Updated(req, doc)
<1>1. Promise!NextNumericId(doc) = NextNumericId(doc)
  BY DEF Promise!NextNumericId, NextNumericId, Promise!Items, Items, Promise!Max, Max,
         Promise!Id, Id
<1>2. Promise!Position(req, doc) = Position(req, doc)
  BY <1>1 DEF Promise!Position, Position, Promise!Root, Root, Promise!ObjectOps, ObjectOps
<1>3. Promise!CanUpdate(req, doc) <=> CanUpdate(req, doc)
  BY <1>2 DEF Promise!CanUpdate, CanUpdate, Promise!IsArray, IsArray, Promise!ObjectOps,
              ObjectOps, Promise!Id, Id, Promise!ItemOps, ItemOps, Promise!Root, Root
<1>4. Promise!Updated(req, doc) = Updated(req, doc)
  BY <1>2 DEF Promise!Updated, Updated
<1> QED
  BY <1>3, <1>4

\* The others are where they were, also for those who look at the cache.
LEMMA OthersShown ==
    ASSUME Inv, NEW t \in Task, NEW u \in Task, u # t, Others(task, task', t),
           NEW r \in Held(task[t]), r \in Resource,
           \A x \in Resource \ {r} : cache'[x] = cache[x]
    PROVE  AbstractStatus(u)' = AbstractStatus(u)
<1>1. task'[u] = task[u]
  BY DEF Others
<1>2. Res(u)' = Res(u)
  BY <1>1 DEF Res
<1>3. task[u].pc \in {"unregister", "uncache"} => cache'[Res(u)] = cache[Res(u)]
  <2> SUFFICES ASSUME task[u].pc \in {"unregister", "uncache"}
               PROVE  cache'[Res(u)] = cache[Res(u)]
    OBVIOUS
  <2>1. Op(u) # "read" /\ task[u].pc \notin {"idle", "done"} \cup Locking
    BY DEF Inv, Shape, Allowed, Op, Locking
  <2>2. Res(u) \in Held(task[u]) /\ Res(u) \in Resource
    BY <2>1, Holds
  <2> QED
    BY <2>1, <2>2, Alone
<1>4. HasApplied(u)' <=> HasApplied(u)
  BY <1>1, <1>2, <1>3 DEF HasApplied
<1> QED
  BY <1>1, <1>4 DEF AbstractStatus

LEMMA ShownBy ==
    ASSUME Inv, NEW t \in Task, Others(task, task', t),
           \A u \in Task \ {t} : AbstractStatus(u)' = AbstractStatus(u)
    PROVE  /\ Requests' = [Requests EXCEPT ![t] = task'[t].req]
           /\ States' = [States EXCEPT ![t] = AbstractStatus(t)']
           /\ Results' = [Results EXCEPT ![t] =
                 IF task'[t].status = "ok" THEN task'[t].result ELSE NoKeys]
BY DEF Others, Requests, States, Results

\* A step that a client does not see.
LEMMA Unseen ==
    ASSUME Inv, NEW t \in Task, Others(task, task', t),
           \A u \in Task \ {t} : AbstractStatus(u)' = AbstractStatus(u),
           AbstractStatus(t)' = AbstractStatus(t),
           task'[t].req = task[t].req,
           task[t].status = "pending", task'[t].status = "pending",
           Visible' = Visible
    PROVE  UNCHANGED Promise!vars
<1>1. Requests' = Requests /\ States' = States /\ Results' = Results
  BY ShownBy DEF Requests, States, Results
<1> QED
  BY <1>1 DEF Promise!vars, Requests, States, Results

\* The step at which a write takes effect.
LEMMA TakesEffect ==
    ASSUME Inv, NEW t \in Task, Others(task, task', t),
           \A u \in Task \ {t} : AbstractStatus(u)' = AbstractStatus(u),
           AbstractStatus(t) = "waiting", AbstractStatus(t)' = "applied",
           task'[t].req = task[t].req,
           task[t].status = "pending", task'[t].status = "pending",
           Op(t) # "read",
           Promise!Applies(task[t].req, Visible[Res(t)]),
           Visible' = [Visible EXCEPT ![Res(t)] =
                          Promise!Effect(task[t].req, Visible[Res(t)])]
    PROVE  Promise!Apply(t)
<1>1. /\ Requests' = Requests /\ Results' = Results
      /\ States' = [States EXCEPT ![t] = "applied"]
  BY ShownBy DEF Requests, Results
<1>2. Promise!Target(task[t].req) = Res(t)
  BY DEF Promise!Target, Res
<1> QED
  BY <1>1, <1>2 DEF Promise!Apply, Requests, States, Results, Op

\* The step that answers.
LEMMA Answers ==
    ASSUME Inv, NEW t \in Task, NEW status \in {"ok", "rejected", "failed"}, Answer(t, status),
           task[t].pc \notin {"idle", "done"},
           \A u \in Task \ {t} : AbstractStatus(u)' = AbstractStatus(u)
    PROVE  /\ Requests' = Requests
           /\ States' = [States EXCEPT ![t] = status]
           /\ status # "ok" => Results' = Results
           /\ status = "ok" => Results' = [Results EXCEPT ![t] = task[t].result]
<1>1. task[t].status = "pending" /\ task \in [Task -> TaskState]
  BY DEF Inv, Shape, TypeOK
<1>2. /\ task'[t].status = status /\ task'[t].req = task[t].req
      /\ task'[t].result = IF status = "ok" THEN task[t].result ELSE NoKeys
  BY <1>1 DEF Answer, IdleTask
<1>3. Others(task, task', t)
  BY Answered
<1>4. AbstractStatus(t)' = status
  BY <1>2 DEF AbstractStatus
<1> QED
  BY <1>1, <1>2, <1>3, <1>4, ShownBy DEF Requests, Results

LEMMA OthersUnmoved ==
    ASSUME NEW t \in Task, Others(task, task', t), cache' = cache
    PROVE  \A u \in Task \ {t} : AbstractStatus(u)' = AbstractStatus(u)
<1> SUFFICES ASSUME NEW u \in Task \ {t}
             PROVE  AbstractStatus(u)' = AbstractStatus(u)
  OBVIOUS
<1>1. task'[u] = task[u]
  BY DEF Others
<1>2. Res(u)' = Res(u)
  BY <1>1 DEF Res
<1>3. HasApplied(u)' <=> HasApplied(u)
  BY <1>1, <1>2 DEF HasApplied
<1> QED
  BY <1>1, <1>3 DEF AbstractStatus

\* Steps before and after which the request has not taken effect.
Before == PC \ {"idle", "done", "cache_new", "refresh", "unregister", "uncache"}

LEMMA StillWaiting ==
    ASSUME Inv, NEW t \in Task, Others(task, task', t),
           \A u \in Task \ {t} : AbstractStatus(u)' = AbstractStatus(u),
           task[t].pc \in Before, task'[t].pc \in Before,
           task'[t].req = task[t].req, task'[t].status = task[t].status,
           Visible' = Visible
    PROVE  UNCHANGED Promise!vars
<1>1. task[t].status = "pending"
  BY DEF Inv, Shape, Before
<1>2. AbstractStatus(t)' = AbstractStatus(t)
  BY <1>1 DEF AbstractStatus, HasApplied, Before
<1> QED
  BY <1>1, <1>2, Unseen

\* Requests that are turned down: at this moment they do not apply.
LEMMA TurnedDown ==
    ASSUME Inv, NEW t \in Task, Answer(t, "rejected"), task[t].pc \in Before,
           \A u \in Task \ {t} : AbstractStatus(u)' = AbstractStatus(u),
           Visible' = Visible,
           \/ Op(t) = "read" /\ \E r \in Subjects(t) : Visible[r] = Absent
           \/ Op(t) # "read" /\ ~Promise!Applies(task[t].req, Visible[Res(t)])
    PROVE  Promise!Reject(t)
<1>1. task[t].status = "pending" /\ task[t].pc \notin {"idle", "done"}
  BY DEF Inv, Shape, Before
<1>2. AbstractStatus(t) = "waiting"
  BY <1>1 DEF AbstractStatus, HasApplied, Before
<1>3. /\ Requests' = Requests /\ Results' = Results
      /\ States' = [States EXCEPT ![t] = "rejected"]
  BY <1>1, Answers
<1>4. /\ Promise!Target(task[t].req) = Res(t)
      /\ Promise!Subjects(task[t].req) = Subjects(t)
  BY DEF Promise!Target, Promise!Subjects, Res, Subjects
<1> QED
  BY <1>2, <1>3, <1>4 DEF Promise!Reject, Requests, States, Results, Op

-----------------------------------------------------------------------------
(***************************************************************************)
(* What the handlers rely on is kept by every step.                        *)
(***************************************************************************)
LEMMA SubmitRefines ==
    ASSUME DataInv, Inv', NEW t \in Task, Submit(t)
    PROVE  DataInv' /\ [Promise!Next]_(Promise!vars)
<1>1. task[t] \in TaskState /\ task \in [Task -> TaskState] /\ Shape(task[t])
  BY TaskType DEF DataInv
<1>2. /\ task[t].pc = "idle" /\ task[t].value = Absent /\ task[t].status = "idle"
      /\ storeVars' = storeVars
  BY <1>1 DEF Submit, At, Shape
<1>3. PICK req \in Workload[t] :
          task' = [task EXCEPT ![t].pc = "lookup", ![t].req = req, ![t].status = "pending",
                               ![t].todo = {req.names[i] : i \in DOMAIN req.names}]
  BY DEF Submit
<1>4. /\ task'[t].pc = "lookup" /\ task'[t].value = Absent /\ task'[t].req = req
      /\ task'[t].status = "pending" /\ Others(task, task', t)
  BY <1>1, <1>2, <1>3 DEF TaskState, Others
<1>5. DataOK(t)'
  BY <1>4 DEF DataOK, UpdateOK, SetOK, DurableOK, Replacing, Unsettled
<1>6. DataInv'
  BY <1>2, <1>4, <1>5, DataStays DEF storeVars, Unsettled
<1>7. \A u \in Task \ {t} : AbstractStatus(u)' = AbstractStatus(u)
  BY <1>2, <1>4, OthersUnmoved DEF storeVars
<1>8. AbstractStatus(t) = "idle" /\ AbstractStatus(t)' = "waiting"
  BY <1>2, <1>4 DEF AbstractStatus, HasApplied
<1>9. /\ Requests' = [Requests EXCEPT ![t] = req]
      /\ States' = [States EXCEPT ![t] = "waiting"]
      /\ Results' = Results
  BY <1>2, <1>4, <1>7, <1>8, ShownBy DEF DataInv, Results
<1>10. Visible' = Visible
  BY <1>2 DEF Visible, storeVars
<1>11. Promise!Arrive(t)
  BY <1>8, <1>9, <1>10 DEF Promise!Arrive, Requests, States, Results
<1> QED
  BY <1>6, <1>11 DEF Promise!Next

\* From lock to lock nothing is known but what an update has computed.
LEMMA AcquireRefines ==
    ASSUME DataInv, Inv', NEW t \in Task, Acquire(t)
    PROVE  DataInv' /\ [Promise!Next]_(Promise!vars)
<1>1. /\ task[t] \in TaskState /\ task \in [Task -> TaskState] /\ Shape(task[t])
  BY TaskType DEF DataInv
<1> DEFINE To(pc, n, todo) ==
               /\ task' = [task EXCEPT ![t].pc = pc, ![t].lock = n, ![t].todo = todo]
               /\ pc = "flock" => Op(t) \in UpdateOps
           Steps == Locking \cup {"load", "check", "apply", "flock"}
<1>2. \E pc \in Steps, n \in Name, todo \in SUBSET Name : To(pc, n, todo)
  <2>1. "await" \in Steps /\ "insert" \in Steps
    BY DEF Locking
  <2>2. task[t].lock \in Name /\ task[t].todo \in SUBSET Name
    BY <1>1 DEF TaskState
  <2>3. CASE LookupLock(t)
    <3>1. PICK n \in task[t].todo :
              \/ task' = [task EXCEPT ![t].pc = "await", ![t].lock = n]
              \/ task' = [task EXCEPT ![t].pc = "insert", ![t].lock = n]
      BY <2>3 DEF LookupLock
    <3>2. To("await", n, task[t].todo) \/ To("insert", n, task[t].todo)
      BY <1>1, <3>1 DEF TaskState
    <3> HIDE DEF To, Steps
    <3> QED
      BY <2>1, <2>2, <3>1, <3>2
  <2>4. CASE MakeLock(t)
    <3>1. To("await", task[t].lock, task[t].todo)
      BY <1>1, <2>4 DEF MakeLock, Goto, TaskState
    <3> HIDE DEF To, Steps
    <3> QED
      BY <2>1, <2>2, <3>1
  <2>5. CASE Awaken(t)
    <3> DEFINE left == task[t].todo \ {task[t].lock}
               next == IF left = {} THEN Locked(t) ELSE "lookup"
    <3>1. task' = [task EXCEPT ![t].pc = next, ![t].todo = left]
      BY <2>5 DEF Awaken
    <3>2. To(next, task[t].lock, left)
      <4>1. task' = [task EXCEPT ![t].pc = next, ![t].lock = task[t].lock, ![t].todo = left]
        <5> HIDE DEF left, next
        <5> QED
          BY <1>1, <3>1 DEF TaskState
      <4>2. next = "flock" => Op(t) \in UpdateOps
        BY DEF Locked, IsUpdate
      <4> QED
        BY <4>1, <4>2
    <3>3. next \in Steps /\ left \in SUBSET Name
      BY <2>2 DEF Locked, Locking
    <3> HIDE DEF To, Steps, left, next
    <3> QED
      BY <2>2, <3>2, <3>3
  <2> QED
    BY <2>3, <2>4, <2>5 DEF Acquire
<1>3. task[t].pc \in Locking /\ storeVars' = storeVars
  BY DEF Acquire, LookupLock, MakeLock, Awaken, At, Locking
<1> PICK pc \in Steps, n \in Name, todo \in SUBSET Name : To(pc, n, todo)
  BY <1>2
<1>4. /\ task'[t].pc = pc /\ task'[t].req = task[t].req /\ task'[t].value = task[t].value
      /\ task'[t].result = task[t].result /\ task'[t].status = task[t].status
      /\ Others(task, task', t)
  BY <1>1, <1>2 DEF TaskState, Others
<1>5. Res(t)' = Res(t) /\ Op(t)' = Op(t)
  BY <1>4 DEF Res, Op
<1>6. UpdateOK(t)'
  BY <1>2, <1>3, <1>4, <1>5 DEF DataInv, DataOK, UpdateOK, storeVars
<1>7. SetOK(t)'
  <2>1. pc = "flock" => Op(t) \notin SetOps
    BY <1>2 DEF SetOps, UpdateOps, ItemOps, ObjectOps
  <2> QED
    BY <1>2, <1>4, <1>5, <2>1 DEF SetOK, Replacing, Locking
<1>8. DurableOK(t)'
  <2>1. task[t].result = NoKeys
    BY <1>1, <1>3 DEF Shape, Locking
  <2>2. \A r \in Resource : task'[t].result[r] = Absent
    BY <1>4, <2>1 DEF NoKeys
  <2> QED
    BY <1>2, <1>4, <2>2 DEF DurableOK, Unsettled, Locking
<1>9. DataOK(t)'
  BY <1>6, <1>7, <1>8 DEF DataOK
<1>10. DataInv'
  BY <1>2, <1>3, <1>4, <1>9, DataStays DEF storeVars, Unsettled, Locking
<1>11. Visible' = Visible /\ cache' = cache
  BY <1>3 DEF Visible, storeVars
<1>12. task[t].pc \in Before /\ pc \in Before
  BY <1>3 DEF Before, PC, Locking
<1> QED
  BY <1>4, <1>10, <1>11, <1>12, OthersUnmoved, StillWaiting DEF DataInv

\* An answer that is given without a change.
LEMMA AnswerData ==
    ASSUME DataInv, Inv', NEW t \in Task, NEW status \in {"ok", "rejected", "failed"},
           Answer(t, status), UNCHANGED <<file, durable, cache, resources>>,
           task[t].pc \notin Unsettled \cup {"sync", "idle", "done"}
    PROVE  DataInv'
<1>1. task'[t].pc = "done" /\ Others(task, task', t)
  BY Answered DEF DataInv
<1> QED
  BY <1>1, DoneOK, DataStays

\* Loading fills the cache with what it finds.
LEMMA Filled ==
    ASSUME DataInv, NEW t \in Task, NEW r \in Resource, r \in Held(task[t]),
           task[t].pc \notin Unsettled \cup {"sync"}, FillCache(r),
           UNCHANGED <<file, durable, resources>>,
           Others(task, task', t), task'[t].pc \notin Unsettled
    PROVE  /\ \A x \in Resource \ {r} : cache'[x] = cache[x]
           /\ Found(r) = durable[r]
           /\ Found(r) # Absent => r \in resources /\ cache'[r] = Found(r)
           /\ Found(r) = Absent => cache'[r] = NoEntry
           /\ Settled(r)'
           /\ Visible' = Visible
<1>1. cache \in [Resource -> {NoEntry} \cup Snapshot]
  BY DEF DataInv, Inv, TypeOK
<1>2. cache' = [cache EXCEPT ![r] = IF Found(r) = Absent THEN NoEntry ELSE Found(r)]
  BY DEF FillCache
<1>3. /\ r \in resources <=> durable[r] # Absent
      /\ Found(r) = durable[r] /\ Visible[r] = durable[r]
  BY AtHand
<1>4. /\ \A x \in Resource \ {r} : cache'[x] = cache[x]
      /\ cache'[r] = IF Found(r) = Absent THEN NoEntry ELSE Found(r)
  BY <1>1, <1>2
<1>5. Settled(r)'
  BY <1>3, <1>4 DEF Settled
<1>6. Visible'[r] = Visible[r]
  BY <1>3, <1>4 DEF Visible
<1>7. \A x \in Resource \ {r} : Visible'[x] = Visible[x]
  BY <1>4 DEF Visible
<1>8. Visible' = Visible
  <2>1. Visible = [x \in Resource |-> Visible[x]] /\ Visible' = [x \in Resource |-> Visible'[x]]
    BY DEF Visible
  <2> QED
    BY <1>6, <1>7, <2>1
<1> QED
  BY <1>3, <1>4, <1>5, <1>8

LEMMA LoadNextRefines ==
    ASSUME DataInv, Inv', NEW t \in Task, LoadNext(t)
    PROVE  DataInv' /\ [Promise!Next]_(Promise!vars)
<1>1. task[t] \in TaskState /\ task \in [Task -> TaskState] /\ Shape(task[t])
  BY TaskType DEF DataInv
<1>2. task[t].pc = "load" /\ UNCHANGED <<file, durable, flock, resources, crashes>>
  BY DEF LoadNext, At
<1>3. PICK r \in Subjects(t) :
          /\ FillCache(r)
          /\ IF Found(r) = Absent THEN Answer(t, "rejected")
             ELSE task' = [task EXCEPT ![t].result[r] = Found(r)] /\ UNCHANGED locks
  BY DEF LoadNext
<1>4. r \in Held(task[t]) /\ r \in Resource
  BY <1>2, Holds, NamesType DEF DataInv, Locking
<1>5. Op(t) = "read"
  BY <1>1, <1>2 DEF Shape, Allowed, Op
<1>6. Others(task, task', t) /\ task'[t].pc \in {"load", "done"} /\ DataOK(t)'
  <2>1. CASE Found(r) = Absent
    BY <1>2, <1>3, <2>1, Answered, DoneOK DEF DataInv
  <2>2. CASE Found(r) # Absent
    <3>1. task' = [task EXCEPT ![t].result[r] = Found(r)]
      BY <1>3, <2>2
    <3>2. task[t].result \in Content
      BY <1>1 DEF TaskState
    <3>3. /\ task'[t].pc = "load" /\ task'[t].req = task[t].req
          /\ task'[t].result = [task[t].result EXCEPT ![r] = Found(r)]
          /\ task'[t].value = task[t].value
          /\ Others(task, task', t)
      BY <1>1, <1>2, <3>1 DEF TaskState, Others
    <3>4. Subjects(t)' = Subjects(t)
      BY <3>3 DEF Subjects
    <3>5. ASSUME NEW x \in Resource, task'[t].result[x] # Absent
          PROVE  x \in Subjects(t) /\ task'[t].result[x] = durable[x]
      <4>1. CASE x = r
        <5>1. Found(r) = durable[r]
          BY <1>2, <1>4, AtHand DEF Unsettled
        <5> QED
          BY <1>3, <1>4, <3>2, <3>3, <4>1, <5>1 DEF Content
      <4>2. CASE x # r
        <5>1. task'[t].result[x] = task[t].result[x]
          BY <1>4, <3>2, <3>3, <4>2 DEF Content
        <5> QED
          BY <1>2, <3>5, <5>1 DEF DataInv, DataOK, DurableOK
      <4> QED
        BY <4>1, <4>2
    <3>6. DurableOK(t)'
      BY <1>2, <3>3, <3>4, <3>5 DEF DurableOK, Unsettled
    <3> QED
      BY <3>3, <3>6 DEF DataOK, UpdateOK, SetOK, Locking, Replacing
  <2> QED
    BY <2>1, <2>2
<1>7. /\ \A x \in Resource \ {r} : cache'[x] = cache[x]
      /\ Settled(r)' /\ Visible' = Visible
  BY <1>2, <1>3, <1>4, <1>6, Filled DEF Unsettled
<1>8. FileInv'
  BY <1>2, <1>6, FileStays DEF DataInv
<1>9. DataInv'
  BY <1>2, <1>4, <1>5, <1>6, <1>7, <1>8, DataMoves DEF Unsettled, InFile
<1>10. \A u \in Task \ {t} : AbstractStatus(u)' = AbstractStatus(u)
  BY <1>4, <1>6, <1>7, OthersShown DEF DataInv
<1>11. task[t].pc \in Before
  BY <1>2 DEF Before, PC
<1>12. CASE Found(r) = Absent
  <2>1. Visible[r] = Absent
    BY <1>2, <1>4, <1>12, AtHand DEF Unsettled
  <2>2. Promise!Reject(t)
    BY <1>3, <1>5, <1>7, <1>10, <1>11, <1>12, <2>1, TurnedDown DEF DataInv
  <2> QED
    BY <1>9, <2>2 DEF Promise!Next
<1>13. CASE Found(r) # Absent
  <2>1. task' = [task EXCEPT ![t].result[r] = Found(r)]
    BY <1>3, <1>13
  <2>2. /\ task'[t].pc = "load" /\ task'[t].req = task[t].req
        /\ task'[t].status = task[t].status
    BY <1>1, <1>2, <2>1 DEF TaskState
  <2>3. task'[t].pc \in Before
    BY <2>2 DEF Before, PC
  <2> QED
    BY <1>6, <1>7, <1>9, <1>10, <1>11, <2>2, <2>3, StillWaiting DEF DataInv
<1> QED
  BY <1>12, <1>13

LEMMA AnswerReadRefines ==
    ASSUME DataInv, Inv', NEW t \in Task, AnswerRead(t)
    PROVE  DataInv' /\ [Promise!Next]_(Promise!vars)
<1>1. task[t] \in TaskState /\ Shape(task[t])
  BY TaskType DEF DataInv
<1>2. /\ task[t].pc = "load" /\ Answer(t, "ok") /\ storeVars' = storeVars
      /\ \A r \in Subjects(t) : task[t].result[r] # Absent
  BY DEF AnswerRead, At
<1>3. DataInv'
  BY <1>2, AnswerData DEF storeVars, Unsettled
<1>4. Visible' = Visible /\ \A u \in Task \ {t} : AbstractStatus(u)' = AbstractStatus(u)
  BY <1>2, Answered, OthersUnmoved DEF DataInv, Visible, storeVars
<1>5. task[t].status = "pending" /\ AbstractStatus(t) = "waiting" /\ Op(t) = "read"
  BY <1>1, <1>2 DEF Shape, Allowed, AbstractStatus, HasApplied, Op
<1>6. /\ Requests' = Requests
      /\ States' = [States EXCEPT ![t] = "ok"]
      /\ Results' = [Results EXCEPT ![t] = task[t].result]
  BY <1>2, <1>4, Answers DEF DataInv
<1>7. ASSUME NEW r \in Resource
      PROVE  /\ r \in Subjects(t) => task[t].result[r] = Visible[r] /\ Visible[r] # Absent
             /\ r \notin Subjects(t) => task[t].result[r] = Absent
  <2>1. task[t].result[r] # Absent => r \in Subjects(t) /\ task[t].result[r] = durable[r]
    BY <1>2 DEF DataInv, DataOK, DurableOK
  <2>2. r \in Subjects(t) => Visible[r] = durable[r]
    <3>1. r \in Subjects(t) => r \in Held(task[t])
      BY <1>2, Holds, NamesType DEF DataInv, Locking
    <3> QED
      BY <1>2, <3>1, AtHand DEF Unsettled
  <2> QED
    BY <1>2, <2>1, <2>2
<1>8. Subjects(t) \subseteq Resource
  BY <1>2, NamesType DEF DataInv
<1>9. task[t].result = [r \in Resource |-> IF r \in Subjects(t) THEN Visible[r] ELSE Absent]
  <2>1. task[t].result \in Content
    BY <1>1 DEF TaskState
  <2> QED
    BY <1>7, <2>1 DEF Content
<1>10. Promise!Subjects(task[t].req) = Subjects(t)
  BY DEF Promise!Subjects, Subjects
<1>11. Promise!Read(t)
  <2>1. Requests[t] = task[t].req /\ States[t] = "waiting"
    BY <1>5 DEF Requests, States
  <2>2. \A r \in Promise!Subjects(Requests[t]) : Visible[r] # Absent
    BY <1>7, <1>8, <1>10, <2>1
  <2>3. Results' = [Results EXCEPT ![t] =
                       [r \in Resource |->
                           IF r \in Promise!Subjects(Requests[t]) THEN Visible[r] ELSE Absent]]
    BY <1>6, <1>9, <1>10, <2>1
  <2>4. Requests[t].op = "read"
    BY <1>5, <2>1 DEF Op
  <2> QED
    BY <1>4, <1>6, <2>1, <2>2, <2>3, <2>4, SMTT(30) DEF Promise!Read, Requests, States, Results
<1> QED
  BY <1>3, <1>11 DEF Promise!Next

LEMMA ApplyUpdateRefines ==
    ASSUME DataInv, Inv', NEW t \in Task, ApplyUpdate(t)
    PROVE  DataInv' /\ [Promise!Next]_(Promise!vars)
<1>1. task[t] \in TaskState /\ task \in [Task -> TaskState] /\ Shape(task[t])
  BY TaskType DEF DataInv
<1>2. /\ task[t].pc = "apply" /\ UNCHANGED <<file, durable, flock, resources, crashes>>
      /\ FillCache(Res(t))
  BY DEF ApplyUpdate, At
<1>3. PICK r \in Resource : r = Res(t) /\ r \in Held(task[t])
  BY <1>2, Holds DEF DataInv, Locking
<1>4. Others(task, task', t) /\ task'[t].pc \in {"lookup", "done"}
      /\ \/ /\ task'[t].pc = "done" /\ Answer(t, "rejected")
            /\ ~(Found(r) # Absent /\ CanUpdate(task[t].req, Found(r)))
         \/ /\ task'[t].pc = "lookup"
            /\ Found(r) # Absent /\ CanUpdate(task[t].req, Found(r))
            /\ task'[t].req = task[t].req /\ task'[t].status = task[t].status
            /\ task'[t].value = Updated(task[t].req, Found(r))
  <2>1. CASE Answer(t, "rejected") /\ ~(Found(r) # Absent /\ CanUpdate(task[t].req, Found(r)))
    BY <1>2, <2>1, Answered DEF DataInv
  <2>2. CASE /\ Found(r) # Absent /\ CanUpdate(task[t].req, Found(r))
             /\ task' = [task EXCEPT ![t].pc = "lookup", ![t].todo = {DbLock},
                                     ![t].value = Updated(task[t].req, Found(r))]
    BY <1>1, <2>2 DEF TaskState, Others
  <2> QED
    BY <1>3, <2>1, <2>2 DEF ApplyUpdate
<1>5. /\ \A x \in Resource \ {r} : cache'[x] = cache[x]
      /\ Found(r) # Absent => r \in resources /\ cache'[r] = Found(r)
      /\ Settled(r)' /\ Visible' = Visible
  BY <1>2, <1>3, <1>4, Filled DEF Unsettled
<1>6. DataOK(t)'
  <2>1. CASE task'[t].pc = "done"
    BY <2>1, DoneOK
  <2>2. CASE task'[t].pc = "lookup" /\ task'[t].pc # "done"
    <3>1. /\ Found(r) # Absent /\ CanUpdate(task[t].req, Found(r))
          /\ task'[t].req = task[t].req
          /\ task'[t].value = Updated(task[t].req, Found(r))
      BY <1>4, <2>2
    <3>2. Res(t)' = r
      BY <1>3, <3>1 DEF Res
    <3>3. cache'[r] # NoEntry
      <4>1. Found(r) \in {Absent} \cup Snapshot
        BY <1>3, FoundType DEF DataInv
      <4>2. NoEntry \notin Snapshot
        BY DbAssumption
      <4> QED
        BY <1>5, <3>1, <4>1, <4>2
    <3>4. UpdateOK(t)'
      BY <1>2, <1>5, <3>1, <3>2, <3>3 DEF UpdateOK
    <3> QED
      BY <2>2, <3>4 DEF DataOK, SetOK, DurableOK, Replacing, Unsettled
  <2> QED
    BY <1>4, <2>1, <2>2
<1>7. FileInv'
  BY <1>2, <1>4, FileStays DEF DataInv
<1>8. DataInv'
  BY <1>2, <1>3, <1>4, <1>5, <1>6, <1>7, DataMoves DEF Unsettled, InFile
<1>9. \A u \in Task \ {t} : AbstractStatus(u)' = AbstractStatus(u)
  BY <1>3, <1>4, <1>5, OthersShown DEF DataInv
<1>10. task[t].pc \in Before
  BY <1>2 DEF Before, PC
<1>11. CASE /\ Answer(t, "rejected")
            /\ ~(Found(r) # Absent /\ CanUpdate(task[t].req, Found(r)))
  <2>1. Visible[r] = Found(r)
    BY <1>2, <1>3, AtHand DEF Unsettled
  <2>2. Op(t) \in UpdateOps
    BY <1>1, <1>2 DEF Shape, Allowed, Op
  <2>3. ~Promise!Applies(task[t].req, Visible[Res(t)])
    <3>1. Op(t) \notin {"create_resource", "delete_resource"}
      BY <2>2 DEF UpdateOps, ItemOps, ObjectOps
    <3>2. Promise!CanUpdate(task[t].req, Found(r)) <=> CanUpdate(task[t].req, Found(r))
      BY SameUpdates
    <3> QED
      BY <1>3, <1>11, <2>1, <3>1, <3>2 DEF Promise!Applies, Op
  <2>4. Op(t) # "read"
    BY <2>2 DEF UpdateOps, ItemOps, ObjectOps
  <2>5. Promise!Reject(t)
    BY <1>5, <1>9, <1>10, <1>11, <2>3, <2>4, TurnedDown DEF DataInv
  <2> QED
    BY <1>8, <2>5 DEF Promise!Next
<1>12. CASE /\ task'[t].pc = "lookup" /\ task'[t].req = task[t].req
            /\ task'[t].status = task[t].status
  <2>1. task'[t].pc \in Before
    BY <1>12 DEF Before, PC
  <2> QED
    BY <1>4, <1>5, <1>8, <1>9, <1>10, <1>12, <2>1, StillWaiting DEF DataInv
<1> QED
  BY <1>4, <1>11, <1>12

LEMMA CheckRegisteredRefines ==
    ASSUME DataInv, Inv', NEW t \in Task, CheckRegistered(t)
    PROVE  DataInv' /\ [Promise!Next]_(Promise!vars)
<1>1. task[t] \in TaskState /\ Shape(task[t])
  BY TaskType DEF DataInv
<1>2. task[t].pc = "check" /\ storeVars' = storeVars /\ task[t].pc \in Before
  BY DEF CheckRegistered, At, Before, PC
<1>3. CASE (Res(t) \in resources <=> Op(t) = "create_resource") /\ Answer(t, "rejected")
  <2>1. DataInv'
    BY <1>2, <1>3, AnswerData DEF storeVars, Unsettled
  <2>2. Visible' = Visible /\ \A u \in Task \ {t} : AbstractStatus(u)' = AbstractStatus(u)
    BY <1>2, <1>3, Answered, OthersUnmoved DEF DataInv, Visible, storeVars
  <2>3. PICK r \in Resource : r = Res(t) /\ r \in Held(task[t])
    BY <1>2, Holds DEF DataInv, Locking
  <2>4. r \in resources <=> Visible[r] # Absent
    BY <1>2, <2>3, AtHand DEF Unsettled
  <2>5. Op(t) \in SetOps
    BY <1>1, <1>2 DEF Shape, Allowed, Op
  <2>6. ~Promise!Applies(task[t].req, Visible[Res(t)])
    BY <1>3, <2>3, <2>4, <2>5 DEF Promise!Applies, SetOps, Op
  <2>7. Op(t) # "read"
    BY <2>5 DEF SetOps
  <2>8. Promise!Reject(t)
    BY <1>2, <1>3, <2>2, <2>6, <2>7, TurnedDown DEF DataInv
  <2> QED
    BY <2>1, <2>8 DEF Promise!Next
<1>4. CASE ~(Res(t) \in resources <=> Op(t) = "create_resource") /\ Goto(t, "flock")
  <2>1. "flock" \in PC
    BY DEF PC
  <2>2. /\ task'[t].pc = "flock" /\ task'[t].req = task[t].req /\ task'[t].value = task[t].value
        /\ task'[t].status = task[t].status /\ Others(task, task', t)
    BY <1>4, <2>1, GoesOn DEF DataInv
  <2>3. Op(t) \in SetOps /\ task[t].value = Absent
    BY <1>1, <1>2 DEF Shape, Allowed, Op, SetOps, UpdateOps, ItemOps, ObjectOps
  <2>4. Res(t)' = Res(t) /\ Op(t)' = Op(t) /\ resources' = resources
    BY <1>2, <2>2 DEF Res, Op, storeVars
  <2>5. Res(t) \in resources <=> Op(t) = "delete_resource"
    BY <1>4, <2>3 DEF SetOps
  <2>6. SetOK(t)'
    BY <2>2, <2>4, <2>5 DEF SetOK
  <2>7. DataOK(t)'
    BY <2>2, <2>3, <2>6 DEF DataOK, UpdateOK, DurableOK, Unsettled
  <2>8. DataInv'
    BY <1>2, <2>2, <2>7, DataStays DEF storeVars, Unsettled
  <2>9. Visible' = Visible /\ \A u \in Task \ {t} : AbstractStatus(u)' = AbstractStatus(u)
    BY <1>2, <2>2, OthersUnmoved DEF Visible, storeVars
  <2>10. task'[t].pc \in Before
    BY <2>2 DEF Before, PC
  <2> QED
    BY <1>2, <2>2, <2>8, <2>9, <2>10, StillWaiting DEF DataInv
<1> QED
  BY <1>3, <1>4 DEF CheckRegistered

LEMMA LockFileRefines ==
    ASSUME DataInv, Inv', NEW t \in Task, LockFile(t)
    PROVE  DataInv' /\ [Promise!Next]_(Promise!vars)
<1>1. task[t].pc = "flock" /\ Goto(t, "open") /\ UNCHANGED <<file, durable, resources, cache>>
  BY DEF LockFile, At
<1>2. "open" \in PC
  BY DEF PC
<1>3. /\ task'[t].pc = "open" /\ task'[t].req = task[t].req /\ task'[t].value = task[t].value
      /\ task'[t].status = task[t].status /\ Others(task, task', t)
  BY <1>1, <1>2, GoesOn DEF DataInv
<1>4. Res(t)' = Res(t) /\ Op(t)' = Op(t)
  BY <1>3 DEF Res, Op
<1>5. UpdateOK(t) /\ SetOK(t)
  BY DEF DataInv, DataOK
<1>6. UpdateOK(t)'
  BY <1>1, <1>3, <1>4, <1>5 DEF UpdateOK, Replacing
<1>7. SetOK(t)'
  BY <1>1, <1>3, <1>4, <1>5 DEF SetOK, Replacing
<1>8. DataOK(t)'
  BY <1>3, <1>6, <1>7 DEF DataOK, DurableOK, Unsettled
<1>9. DataInv'
  BY <1>1, <1>3, <1>8, DataStays DEF Unsettled
<1>10. Visible' = Visible /\ \A u \in Task \ {t} : AbstractStatus(u)' = AbstractStatus(u)
  BY <1>1, <1>3, OthersUnmoved DEF Visible
<1>11. task[t].pc \in Before /\ task'[t].pc \in Before
  BY <1>1, <1>3 DEF Before, PC
<1> QED
  BY <1>3, <1>9, <1>10, <1>11, StillWaiting DEF DataInv

\* A resource that a writer has locked but not yet changed.
LEMMA NotBusy ==
    ASSUME DataInv, NEW t \in Task, NEW r \in Resource, r \in Held(task[t]),
           task[t].pc \notin Unsettled
    PROVE  /\ r \in resources <=> durable[r] # Absent
           /\ cache[r] # NoEntry => cache[r] = durable[r]
           /\ r \notin resources => cache[r] = NoEntry
<1>1. ASSUME NEW u \in Task, task[u].pc \in Unsettled, Res(u) = r
      PROVE  FALSE
  <2>1. Op(u) # "read" /\ task[u].pc \notin {"idle", "done"} \cup Locking
    BY <1>1 DEF DataInv, Inv, Shape, Allowed, Op, UpdateOps, ItemOps, ObjectOps, Unsettled, Locking
  <2>2. Res(u) \in Held(task[u])
    BY <2>1, Holds DEF DataInv
  <2> QED
    BY <1>1, <2>1, <2>2, Alone DEF DataInv
<1>2. /\ r \in resources <=> durable[r] # Absent
      /\ cache[r] # NoEntry => cache[r] = durable[r]
  BY <1>1 DEF DataInv, Settled, Busy
<1>3. cache[r] \in {NoEntry} \cup Snapshot /\ Absent \notin Snapshot
  BY DbAssumption DEF DataInv, Inv, TypeOK
<1> QED
  BY <1>2, <1>3

\* Only one handler is between reading the file and syncing its replacement.
LEMMA AloneInFile ==
    ASSUME Inv, NEW t \in Task, task[t].pc \in InFile
    PROVE  \A u \in Task \ {t} : task[u].pc \notin InFile
BY DEF Inv, FileLockInv

LEMMA OpenDbFileRefines ==
    ASSUME DataInv, Inv', NEW t \in Task, OpenDbFile(t)
    PROVE  DataInv' /\ [Promise!Next]_(Promise!vars)
<1>1. task[t] \in TaskState /\ task \in [Task -> TaskState]
  BY TaskType DEF DataInv
<1>2. task[t].pc = "open" /\ UNCHANGED <<file, durable, resources, cache>>
  BY DEF OpenDbFile, At
<1>3. file = durable
  BY <1>2, AloneInFile DEF DataInv, FileInv, InFile
<1>4. ~(~IsUpdate(t) /\ (file[Res(t)] # Absent <=> Op(t) = "create_resource"))
  <2> SUFFICES ASSUME ~IsUpdate(t)
               PROVE  ~(file[Res(t)] # Absent <=> Op(t) = "create_resource")
    OBVIOUS
  <2>1. Op(t) \in SetOps
    BY <1>2 DEF DataInv, Inv, Shape, Allowed, Op, IsUpdate, Replacing
  <2>2. PICK r \in Resource : r = Res(t) /\ r \in Held(task[t])
    BY <1>2, Holds DEF DataInv, Locking
  <2>3. r \in resources <=> durable[r] # Absent
    BY <1>2, <2>2, NotBusy DEF Unsettled
  <2>4. r \in resources <=> Op(t) = "delete_resource"
    BY <1>2, <2>1, <2>2 DEF DataInv, DataOK, SetOK, Replacing
  <2> QED
    BY <1>3, <2>1, <2>2, <2>3, <2>4 DEF SetOps
<1>5. task' = [task EXCEPT ![t].pc = "rename", ![t].root = file]
  BY <1>4 DEF OpenDbFile
<1>6. /\ task'[t].pc = "rename" /\ task'[t].req = task[t].req /\ task'[t].value = task[t].value
      /\ task'[t].root = file /\ task'[t].status = task[t].status /\ Others(task, task', t)
  BY <1>1, <1>5 DEF TaskState, Others
<1>7. Res(t)' = Res(t) /\ Op(t)' = Op(t)
  BY <1>6 DEF Res, Op
<1>8. UpdateOK(t) /\ SetOK(t)
  BY DEF DataInv, DataOK
<1>9. UpdateOK(t)'
  BY <1>2, <1>6, <1>7, <1>8 DEF UpdateOK, Replacing
<1>10. SetOK(t)'
  BY <1>2, <1>6, <1>7, <1>8 DEF SetOK, Replacing
<1>11. DurableOK(t)'
  BY <1>2, <1>3, <1>6 DEF DurableOK, Unsettled
<1>12. DataOK(t)'
  BY <1>9, <1>10, <1>11 DEF DataOK
<1>13. DataInv'
  BY <1>2, <1>6, <1>12, DataStays DEF Unsettled
<1>14. Visible' = Visible /\ \A u \in Task \ {t} : AbstractStatus(u)' = AbstractStatus(u)
  BY <1>2, <1>6, OthersUnmoved DEF Visible
<1>15. task[t].pc \in Before /\ task'[t].pc \in Before
  BY <1>2, <1>6 DEF Before, PC
<1> QED
  BY <1>6, <1>13, <1>14, <1>15, StillWaiting DEF DataInv

LEMMA RenameRefines ==
    ASSUME DataInv, Inv', NEW t \in Task, Rename(t)
    PROVE  DataInv' /\ [Promise!Next]_(Promise!vars)
<1>1. /\ task[t].pc = "rename" /\ Goto(t, "sync")
      /\ file' = [task[t].root EXCEPT ![Res(t)] = NewValue(t)]
      /\ UNCHANGED <<durable, resources, cache>>
  BY DEF Rename, At
<1>2. "sync" \in PC
  BY DEF PC
<1>3. /\ task'[t].pc = "sync" /\ task'[t].req = task[t].req /\ task'[t].value = task[t].value
      /\ task'[t].status = task[t].status /\ Others(task, task', t)
  BY <1>1, <1>2, GoesOn DEF DataInv
<1>4. Res(t)' = Res(t) /\ Op(t)' = Op(t) /\ NewValue(t)' = NewValue(t)
  BY <1>3 DEF Res, Op, NewValue
<1>5. UpdateOK(t) /\ SetOK(t) /\ DurableOK(t)
  BY DEF DataInv, DataOK
<1>6. UpdateOK(t)'
  BY <1>1, <1>3, <1>4, <1>5 DEF UpdateOK, Replacing
<1>7. SetOK(t)'
  BY <1>1, <1>3, <1>4, <1>5 DEF SetOK, Replacing
<1>8. DataOK(t)'
  BY <1>3, <1>6, <1>7 DEF DataOK, DurableOK, Unsettled
<1>9. PICK r \in Resource : r = Res(t) /\ r \in Held(task[t])
  BY <1>1, Holds DEF DataInv, Locking
<1>10. Settled(r)'
  BY <1>1, <1>3, OthersSettled DEF DataInv, Unsettled
<1>11. FileInv'
  <2>1. \A u \in Task \ {t} : task'[u].pc # "sync"
    BY <1>1, <1>3, AloneInFile DEF DataInv, InFile, Others
  <2>2. file' = [durable' EXCEPT ![Res(t)] = NewValue(t)]
    BY <1>1, <1>5 DEF DurableOK
  <2> QED
    BY <1>3, <1>4, <2>1, <2>2 DEF FileInv
<1>12. DataInv'
  BY <1>1, <1>3, <1>8, <1>9, <1>10, <1>11, DataMoves DEF Unsettled
<1>13. Visible' = Visible /\ \A u \in Task \ {t} : AbstractStatus(u)' = AbstractStatus(u)
  BY <1>1, <1>3, OthersUnmoved DEF Visible
<1>14. task[t].pc \in Before /\ task'[t].pc \in Before
  BY <1>1, <1>3 DEF Before, PC
<1> QED
  BY <1>3, <1>12, <1>13, <1>14, StillWaiting DEF DataInv

-----------------------------------------------------------------------------
(***************************************************************************)
(* The steps that change what clients find.                                *)
(***************************************************************************)

\* What a step of a handler that holds its resource's lock has to show.
LEMMA Mapped ==
    ASSUME DataInv, Inv', NEW t \in Task, NEW pc \in PC, Goto(t, pc),
           task[t].pc \notin Locking \cup {"idle", "done", "load"},
           pc \notin {"idle", "done"}
    PROVE  /\ Others(task, task', t)
           /\ task'[t].pc = pc /\ task'[t].req = task[t].req /\ task'[t].value = task[t].value
           /\ task[t].status = "pending" /\ task'[t].status = "pending"
           /\ Res(t)' = Res(t) /\ Op(t)' = Op(t) /\ NewValue(t)' = NewValue(t)
           /\ task[t].pc \notin {"check", "apply"} => Op(t) \in UpdateOps \cup SetOps
<1>1. task[t] \in TaskState /\ Shape(task[t])
  BY TaskType DEF DataInv
<1>2. /\ Others(task, task', t)
      /\ task'[t].pc = pc /\ task'[t].req = task[t].req /\ task'[t].value = task[t].value
      /\ task[t].status = "pending" /\ task'[t].status = "pending"
  BY <1>1, GoesOn DEF DataInv, Shape
<1>3. Res(t)' = Res(t) /\ Op(t)' = Op(t) /\ NewValue(t)' = NewValue(t)
  BY <1>2 DEF Res, Op, NewValue
<1>4. task[t].pc \notin {"check", "apply"} => Op(t) \in UpdateOps \cup SetOps
  <2>1. task[t].pc \in PC
    BY <1>1 DEF TaskState
  <2> QED
    BY <1>1, <2>1 DEF PC, Shape, Allowed, Op, Locking, Replacing, SetOps
<1> QED
  BY <1>2, <1>3, <1>4

\* What is written is what the request makes of the document before.
LEMMA EffectIs ==
    ASSUME DataInv, NEW t \in Task, Op(t) \in UpdateOps \cup SetOps, NEW doc,
           Op(t) \in UpdateOps => task[t].value = Updated(task[t].req, doc)
    PROVE  /\ Promise!Effect(task[t].req, doc) = NewValue(t)
           /\ Op(t) = "create_resource" => (Promise!Applies(task[t].req, doc) <=> doc = Absent)
           /\ Op(t) = "delete_resource" => (Promise!Applies(task[t].req, doc) <=> doc # Absent)
           /\ Op(t) \in UpdateOps =>
                  (Promise!Applies(task[t].req, doc) <=>
                       doc # Absent /\ CanUpdate(task[t].req, doc))
<1>1. Op(t) \in UpdateOps => Op(t) \notin {"create_resource", "delete_resource"}
  BY DEF UpdateOps, ItemOps, ObjectOps
<1>2. CASE Op(t) = "create_resource"
  BY <1>1, <1>2 DEF Promise!Effect, Promise!Applies, NewValue, Op
<1>3. CASE Op(t) = "delete_resource"
  BY <1>1, <1>3 DEF Promise!Effect, Promise!Applies, NewValue, Op
<1>4. CASE Op(t) \in UpdateOps
  <2>1. /\ Promise!Effect(task[t].req, doc) = Promise!Updated(task[t].req, doc)
        /\ Promise!Applies(task[t].req, doc) <=>
               doc # Absent /\ Promise!CanUpdate(task[t].req, doc)
    BY <1>1, <1>4 DEF Promise!Effect, Promise!Applies, Op
  <2>2. NewValue(t) = task[t].value
    BY <1>1, <1>4 DEF NewValue
  <2> QED
    BY <1>1, <1>4, <2>1, <2>2, SameUpdates
<1> QED
  BY <1>2, <1>3, <1>4 DEF SetOps

LEMMA SyncDirRefines ==
    ASSUME DataInv, Inv', NEW t \in Task, SyncDir(t)
    PROVE  DataInv' /\ [Promise!Next]_(Promise!vars)
<1> DEFINE pc == AfterSync(t)
<1>1. /\ task[t].pc = "sync" /\ durable' = file /\ Goto(t, pc)
      /\ UNCHANGED <<file, resources, cache>>
  BY DEF SyncDir, At
<1>2. Op(t) \in UpdateOps \cup SetOps
  BY <1>1 DEF DataInv, Inv, Shape, Allowed, Op, Replacing
<1>3. /\ pc \in {"register", "unregister", "install"} /\ pc \in PC
      /\ pc = "register" <=> Op(t) = "create_resource"
      /\ pc = "unregister" <=> Op(t) = "delete_resource"
      /\ pc = "install" <=> Op(t) \in UpdateOps
  <2>1. \A op \in SetOps : op \notin UpdateOps
    BY DEF SetOps, UpdateOps, ItemOps, ObjectOps
  <2> QED
    BY <1>2, <2>1 DEF AfterSync, SetOps, PC
<1>4. /\ Others(task, task', t)
      /\ task'[t].pc = pc /\ task'[t].req = task[t].req /\ task'[t].value = task[t].value
      /\ task[t].status = "pending" /\ task'[t].status = "pending"
      /\ Res(t)' = Res(t) /\ Op(t)' = Op(t) /\ NewValue(t)' = NewValue(t)
  BY <1>1, <1>3, Mapped DEF Locking
<1>5. PICK r \in Resource : r = Res(t) /\ r \in Held(task[t])
  BY <1>1, Holds DEF DataInv, Locking
<1>6. /\ r \in resources <=> durable[r] # Absent
      /\ cache[r] # NoEntry => cache[r] = durable[r]
      /\ r \notin resources => cache[r] = NoEntry
  BY <1>1, <1>5, NotBusy DEF Unsettled
<1>7. /\ \A x \in Resource \ {r} : durable'[x] = durable[x]
      /\ durable'[r] = NewValue(t)
  <2>1. file = [durable EXCEPT ![r] = NewValue(t)]
    BY <1>1, <1>5 DEF DataInv, FileInv
  <2>2. durable \in Content
    BY DEF DataInv, Inv, TypeOK
  <2> QED
    BY <1>1, <2>1, <2>2 DEF Content
<1>8. UpdateOK(t) /\ SetOK(t)
  BY DEF DataInv, DataOK
<1>9. DataOK(t)'
  <2>1. UpdateOK(t)'
    BY <1>1, <1>4, <1>8 DEF UpdateOK, Replacing
  <2>2. SetOK(t)'
    BY <1>1, <1>3, <1>4, <1>5, <1>6, <1>8 DEF SetOK, Replacing, SetOps
  <2>3. DurableOK(t)'
    BY <1>3, <1>4, <1>5, <1>7 DEF DurableOK
  <2> QED
    BY <2>1, <2>2, <2>3 DEF DataOK
<1>10. Busy(r)'
  BY <1>3, <1>4, <1>5 DEF Busy, Unsettled
<1>11. FileInv'
  <2>1. \A u \in Task : task'[u].pc # "sync"
    BY <1>1, <1>3, <1>4, AloneInFile DEF DataInv, InFile, Others
  <2> QED
    BY <1>1, <2>1 DEF FileInv
<1>12. DataInv'
  <2>1. Settled(r)'
    BY <1>10 DEF Settled
  <2>2. Op(t) # "read" /\ task[t].pc \in InFile /\ task[t].pc \notin Unsettled
    BY <1>1, <1>2 DEF UpdateOps, ItemOps, ObjectOps, SetOps, InFile, Unsettled
  <2> QED
    BY <1>1, <1>4, <1>5, <1>7, <1>9, <1>11, <2>1, <2>2, DataMoves
<1>13. \A u \in Task \ {t} : AbstractStatus(u)' = AbstractStatus(u)
  BY <1>1, <1>4, <1>5, OthersShown DEF DataInv
<1>14. \A x \in Resource \ {r} : Visible'[x] = Visible[x]
  BY <1>1, <1>7 DEF Visible
<1>15. Visible = [x \in Resource |-> Visible[x]] /\ Visible' = [x \in Resource |-> Visible'[x]]
  BY DEF Visible
<1>16. AbstractStatus(t) = "waiting"
  BY <1>1, <1>4 DEF AbstractStatus, HasApplied
<1>17. CASE Op(t) = "delete_resource" /\ cache[r] = NoEntry
  <2>1. AbstractStatus(t)' = "applied"
    BY <1>1, <1>3, <1>4, <1>5, <1>17 DEF AbstractStatus, HasApplied
  <2>2. r \in resources
    BY <1>1, <1>5, <1>8, <1>17 DEF SetOK, Replacing, SetOps
  <2>3. Visible[r] = durable[r] /\ Visible'[r] = Absent /\ NewValue(t) = Absent
    BY <1>1, <1>7, <1>17, <2>2 DEF Visible, NewValue
  <2>4. /\ Promise!Applies(task[t].req, Visible[Res(t)])
        /\ Promise!Effect(task[t].req, Visible[Res(t)]) = Absent
    BY <1>2, <1>5, <1>6, <1>17, <2>2, <2>3, EffectIs DEF UpdateOps, ItemOps, ObjectOps
  <2>5. Visible' = [Visible EXCEPT ![Res(t)] = Absent]
    BY <1>5, <1>14, <1>15, <2>3
  <2>6. Promise!Apply(t)
    BY <1>4, <1>13, <1>16, <1>17, <2>1, <2>4, <2>5, TakesEffect DEF DataInv
  <2> QED
    BY <1>12, <2>6 DEF Promise!Next
<1>18. CASE ~(Op(t) = "delete_resource" /\ cache[r] = NoEntry)
  <2>1. AbstractStatus(t)' = "waiting"
    BY <1>1, <1>3, <1>4, <1>5, <1>18 DEF AbstractStatus, HasApplied
  <2>2. Visible'[r] = Visible[r]
    <3>1. CASE cache[r] # NoEntry
      BY <1>1, <3>1 DEF Visible
    <3>2. CASE cache[r] = NoEntry
      <4>1. Op(t) = "create_resource"
        <5>1. Op(t) \notin UpdateOps
          <6>1. Op(t) \in UpdateOps => task[t].value # Absent
            BY <1>1 DEF DataInv, Inv, Shape, Allowed, Op, Replacing
          <6> QED
            BY <1>1, <1>5, <1>8, <3>2, <6>1 DEF UpdateOK, Replacing
        <5> QED
          BY <1>2, <1>18, <3>2, <5>1 DEF SetOps
      <4>2. r \notin resources
        BY <1>1, <1>5, <1>8, <4>1 DEF SetOK, Replacing, SetOps
      <4> QED
        BY <1>1, <3>2, <4>2 DEF Visible
    <3> QED
      BY <3>1, <3>2
  <2>3. Visible' = Visible
    BY <1>14, <1>15, <2>2
  <2> QED
    BY <1>4, <1>12, <1>13, <1>16, <2>1, <2>3, Unseen DEF DataInv
<1> QED
  BY <1>17, <1>18

LEMMA InstallRefines ==
    ASSUME DataInv, Inv', NEW t \in Task, Install(t)
    PROVE  DataInv' /\ [Promise!Next]_(Promise!vars)
<1>1. /\ task[t].pc \in {"install", "cache_new", "uncache"} /\ Goto(t, "refresh")
      /\ UNCHANGED <<file, durable, resources>>
  BY DEF Install, At
<1>2. "refresh" \in PC
  BY DEF PC
<1>3. /\ Others(task, task', t)
      /\ task'[t].pc = "refresh" /\ task[t].status = "pending" /\ task'[t].status = "pending"
      /\ task'[t].req = task[t].req
      /\ Op(t) \in UpdateOps \cup SetOps
  BY <1>1, <1>2, Mapped DEF Locking
<1>4. PICK r \in Resource : r = Res(t) /\ r \in Held(task[t])
  BY <1>1, Holds DEF DataInv, Locking
<1>5. /\ task[t].pc = "install" => Op(t) \in UpdateOps /\ task[t].value # Absent
      /\ task[t].pc = "cache_new" => Op(t) = "create_resource"
      /\ task[t].pc = "uncache" => Op(t) = "delete_resource"
  BY DEF DataInv, Inv, Shape, Allowed, Op
<1>6. UpdateOK(t) /\ SetOK(t) /\ DurableOK(t)
  BY DEF DataInv, DataOK
<1>7. durable[r] = NewValue(t)
  BY <1>1, <1>4, <1>6 DEF DurableOK, Unsettled
<1>8. r \in resources <=> task[t].pc # "uncache"
  BY <1>1, <1>4, <1>5, <1>6 DEF UpdateOK, SetOK
<1>9. /\ NewValue(t) \in {Absent} \cup Snapshot
      /\ NewValue(t) = Absent <=> task[t].pc = "uncache"
  <2>1. task[t].req.doc \in Snapshot /\ task[t].value \in {Absent} \cup Snapshot
        /\ Absent \notin Snapshot
    BY <1>1, NamesType, DbAssumption DEF DataInv, Inv, TypeOK, TaskState, Request
  <2>2. Op(t) \in UpdateOps => Op(t) \notin {"create_resource", "delete_resource"}
    BY DEF UpdateOps, ItemOps, ObjectOps
  <2> QED
    BY <1>1, <1>5, <2>1, <2>2 DEF NewValue
<1>10. cache \in [Resource -> {NoEntry} \cup Snapshot]
  BY DEF DataInv, Inv, TypeOK
<1>11. /\ \A x \in Resource \ {r} : cache'[x] = cache[x]
       /\ cache'[r] = IF task[t].pc = "uncache" THEN NoEntry ELSE NewValue(t)
  <2>1. Op(t) \in UpdateOps => Op(t) \notin {"create_resource", "delete_resource"}
    BY DEF UpdateOps, ItemOps, ObjectOps
  <2>2. cache' = [cache EXCEPT ![r] = IF task[t].pc = "uncache" THEN NoEntry ELSE NewValue(t)]
    <3>1. CASE task[t].pc = "install"
      BY <1>4, <1>5, <2>1, <3>1 DEF Install, At, NewValue
    <3>2. CASE task[t].pc = "cache_new"
      BY <1>4, <1>5, <2>1, <3>2 DEF Install, At, NewValue, Op
    <3>3. CASE task[t].pc = "uncache"
      BY <1>4, <3>3 DEF Install, At
    <3> QED
      BY <1>1, <3>1, <3>2, <3>3
  <2> QED
    BY <1>10, <2>2
<1>12. DataInv'
  <2>1. Settled(r)'
    BY <1>1, <1>7, <1>8, <1>9, <1>11 DEF Settled
  <2>2. DataOK(t)'
    BY <1>3 DEF DataOK, UpdateOK, SetOK, DurableOK, Locking, Replacing, Unsettled
  <2>3. FileInv'
    BY <1>1, <1>3, FileStays DEF DataInv
  <2>4. task[t].pc \notin InFile
    BY <1>1 DEF InFile
  <2> QED
    BY <1>1, <1>3, <1>4, <1>11, <2>1, <2>2, <2>3, <2>4, DataMoves
<1>13. \A u \in Task \ {t} : AbstractStatus(u)' = AbstractStatus(u)
  BY <1>3, <1>4, <1>11, OthersShown DEF DataInv
<1>14. \A x \in Resource \ {r} : Visible'[x] = Visible[x]
  BY <1>1, <1>11 DEF Visible
<1>15. Visible = [x \in Resource |-> Visible[x]] /\ Visible' = [x \in Resource |-> Visible'[x]]
  BY DEF Visible
<1>16. AbstractStatus(t)' = "applied"
  BY <1>3 DEF AbstractStatus, HasApplied
<1>17. Visible'[r] = NewValue(t)
  <2>1. NoEntry \notin Snapshot
    BY DbAssumption
  <2> QED
    BY <1>1, <1>7, <1>8, <1>9, <1>11, <2>1 DEF Visible
<1>18. CASE task[t].pc = "cache_new" \/ (task[t].pc = "uncache" /\ cache[r] = NoEntry)
  <2>1. AbstractStatus(t) = "applied"
    BY <1>3, <1>4, <1>18 DEF AbstractStatus, HasApplied
  <2>2. Visible[r] = NewValue(t)
    BY <1>4, <1>6, <1>7, <1>8, <1>9, <1>18 DEF Visible, SetOK
  <2>3. Visible' = Visible
    BY <1>14, <1>15, <1>17, <2>2
  <2> QED
    BY <1>3, <1>12, <1>13, <1>16, <2>1, <2>3, Unseen DEF DataInv
<1>19. CASE task[t].pc = "install" \/ (task[t].pc = "uncache" /\ cache[r] # NoEntry)
  <2>1. AbstractStatus(t) = "waiting"
    BY <1>3, <1>4, <1>19 DEF AbstractStatus, HasApplied
  <2>2. cache[r] # NoEntry /\ Visible[r] = cache[r] /\ Visible[r] # Absent
    <3>1. cache[r] # NoEntry
      BY <1>4, <1>5, <1>6, <1>19 DEF UpdateOK
    <3>2. Absent \notin Snapshot
      BY DbAssumption
    <3> QED
      BY <1>10, <3>1, <3>2 DEF Visible
  <2>3. Op(t) \in UpdateOps =>
            /\ CanUpdate(task[t].req, Visible[r])
            /\ task[t].value = Updated(task[t].req, Visible[r])
    <3>1. Op(t) \in UpdateOps => task[t].pc = "install"
      BY <1>5, <1>19 DEF UpdateOps, ItemOps, ObjectOps
    <3> QED
      BY <1>4, <1>5, <1>6, <2>2, <3>1 DEF UpdateOK
  <2>4. Op(t) \in UpdateOps \/ Op(t) = "delete_resource"
    BY <1>5, <1>19
  <2>5. /\ Promise!Applies(task[t].req, Visible[Res(t)])
        /\ Promise!Effect(task[t].req, Visible[Res(t)]) = NewValue(t)
    BY <1>3, <1>4, <2>2, <2>3, <2>4, EffectIs
  <2>6. Visible' = [Visible EXCEPT ![Res(t)] = NewValue(t)]
    BY <1>4, <1>14, <1>15, <1>17
  <2>7. Op(t) # "read"
    BY <2>4 DEF UpdateOps, ItemOps, ObjectOps
  <2>8. Promise!Apply(t)
    BY <1>3, <1>13, <1>16, <2>1, <2>5, <2>6, <2>7, TakesEffect DEF DataInv
  <2> QED
    BY <1>12, <2>8 DEF Promise!Next
<1> QED
  BY <1>1, <1>18, <1>19

LEMMA ChangeSetRefines ==
    ASSUME DataInv, Inv', NEW t \in Task, ChangeSet(t)
    PROVE  DataInv' /\ [Promise!Next]_(Promise!vars)
<1>1. PICK pc \in {"cache_new", "uncache"} :
          /\ Goto(t, pc)
          /\ \/ task[t].pc = "register" /\ pc = "cache_new" /\ resources' = resources \cup {Res(t)}
             \/ task[t].pc = "unregister" /\ pc = "uncache" /\ resources' = resources \ {Res(t)}
          /\ UNCHANGED <<file, durable, cache>>
  BY DEF ChangeSet, At
<1>2. pc \in PC
  BY <1>1 DEF PC
<1>3. /\ Others(task, task', t)
      /\ task'[t].pc = pc /\ task[t].status = "pending" /\ task'[t].status = "pending"
      /\ task'[t].req = task[t].req /\ task'[t].value = task[t].value
      /\ Res(t)' = Res(t) /\ Op(t)' = Op(t) /\ NewValue(t)' = NewValue(t)
      /\ Op(t) \in UpdateOps \cup SetOps
  BY <1>1, <1>2, Mapped DEF Locking
<1>4. PICK r \in Resource : r = Res(t) /\ r \in Held(task[t])
  BY <1>1, Holds DEF DataInv, Locking
<1>5. /\ task[t].pc = "register" => Op(t) = "create_resource"
      /\ task[t].pc = "unregister" => Op(t) = "delete_resource"
  BY DEF DataInv, Inv, Shape, Allowed, Op
<1>6. SetOK(t) /\ DurableOK(t)
  BY DEF DataInv, DataOK
<1>7. durable[r] = NewValue(t)
  BY <1>1, <1>4, <1>6 DEF DurableOK, Unsettled
<1>8. /\ \A x \in Resource \ {r} : x \in resources' <=> x \in resources
      /\ r \in resources' <=> pc = "cache_new"
  BY <1>1, <1>4
<1>9. DataInv'
  <2>1. Busy(r)'
    BY <1>1, <1>3, <1>4 DEF Busy, Unsettled
  <2>2. Settled(r)'
    BY <2>1 DEF Settled
  <2>3. SetOK(t)'
    BY <1>1, <1>3, <1>4, <1>6, <1>8 DEF SetOK, Replacing
  <2>4. DurableOK(t)'
    BY <1>1, <1>3, <1>4, <1>7 DEF DurableOK
  <2>5. DataOK(t)'
    BY <1>1, <1>3, <2>3, <2>4 DEF DataOK, UpdateOK, Locking, Replacing
  <2>6. FileInv'
    BY <1>1, <1>3, FileStays DEF DataInv
  <2>7. task[t].pc \notin InFile
    BY <1>1 DEF InFile
  <2> QED
    BY <1>1, <1>3, <1>4, <1>8, <2>2, <2>5, <2>6, <2>7, DataMoves
<1>10. \A u \in Task \ {t} : AbstractStatus(u)' = AbstractStatus(u)
  BY <1>1, <1>3, <1>4, OthersShown DEF DataInv
<1>11. \A x \in Resource \ {r} : Visible'[x] = Visible[x]
  BY <1>1, <1>8 DEF Visible
<1>12. Visible = [x \in Resource |-> Visible[x]] /\ Visible' = [x \in Resource |-> Visible'[x]]
  BY DEF Visible
<1>13. CASE task[t].pc = "register"
  <2>1. AbstractStatus(t) = "waiting" /\ AbstractStatus(t)' = "applied"
    BY <1>1, <1>3, <1>13 DEF AbstractStatus, HasApplied
  <2>2. cache[r] = NoEntry /\ r \notin resources
    BY <1>4, <1>6, <1>13 DEF SetOK
  <2>3. Visible[r] = Absent /\ Visible'[r] = NewValue(t)
    BY <1>1, <1>7, <1>8, <1>13, <2>2 DEF Visible
  <2>4. Op(t) \notin UpdateOps
    BY <1>5, <1>13 DEF UpdateOps, ItemOps, ObjectOps
  <2>5. /\ Promise!Applies(task[t].req, Visible[Res(t)])
        /\ Promise!Effect(task[t].req, Visible[Res(t)]) = NewValue(t)
    BY <1>3, <1>4, <1>5, <1>13, <2>3, <2>4, EffectIs
  <2>6. Visible' = [Visible EXCEPT ![Res(t)] = NewValue(t)]
    BY <1>4, <1>11, <1>12, <2>3
  <2>7. Promise!Apply(t)
    BY <1>3, <1>5, <1>10, <1>13, <2>1, <2>5, <2>6, TakesEffect DEF DataInv
  <2> QED
    BY <1>9, <2>7 DEF Promise!Next
<1>14. CASE task[t].pc = "unregister"
  <2>1. AbstractStatus(t)' = AbstractStatus(t)
    BY <1>1, <1>3, <1>14 DEF AbstractStatus, HasApplied
  <2>2. Visible'[r] = Visible[r]
    <3>1. durable[r] = Absent
      BY <1>5, <1>7, <1>14 DEF NewValue
    <3> QED
      BY <1>1, <3>1 DEF Visible
  <2>3. Visible' = Visible
    BY <1>11, <1>12, <2>2
  <2> QED
    BY <1>3, <1>9, <1>10, <2>1, <2>3, Unseen DEF DataInv
<1> QED
  BY <1>1, <1>13, <1>14

\* A server error before anything was written, or after all was done.
LEMMA FailureRefines ==
    ASSUME DataInv, Inv', NEW t \in Task, WriteFails(t) \/ RefreshSchema(t)
    PROVE  DataInv' /\ [Promise!Next]_(Promise!vars)
<1>1. PICK status \in {"ok", "failed"} :
          /\ Answer(t, status)
          /\ UNCHANGED <<file, durable, resources, cache>>
          /\ \/ task[t].pc = "rename" /\ status = "failed"
             \/ task[t].pc = "refresh"
  BY DEF WriteFails, RefreshSchema, At, storeVars
<1>2. DataInv'
  BY <1>1, AnswerData DEF Unsettled
<1>3. Visible' = Visible /\ \A u \in Task \ {t} : AbstractStatus(u)' = AbstractStatus(u)
  BY <1>1, Answered, OthersUnmoved DEF DataInv, Visible
<1>4. task[t].status = "pending" /\ task[t].pc \notin {"idle", "done"}
  BY <1>1 DEF DataInv, Inv, Shape
<1>5. /\ task[t].pc = "rename" => AbstractStatus(t) = "waiting"
      /\ task[t].pc = "refresh" => AbstractStatus(t) = "applied"
  BY <1>4 DEF AbstractStatus, HasApplied
<1>6. /\ Requests' = Requests /\ States' = [States EXCEPT ![t] = status]
      /\ status # "ok" => Results' = Results
      /\ status = "ok" => Results' = [Results EXCEPT ![t] = task[t].result]
  BY <1>1, <1>3, <1>4, Answers DEF DataInv
<1>7. status = "ok" => Results' = Results
  <2>1. task[t].pc = "refresh" => task[t].result = NoKeys
    BY DEF DataInv, Inv, Shape
  <2> QED
    BY <1>1, <1>4, <1>6, <2>1 DEF Results
<1>8. CASE status = "failed"
  BY <1>1, <1>2, <1>3, <1>5, <1>6, <1>8
     DEF Promise!Next, Promise!Fail, Promise!InFlight, Requests, States, Results
<1>9. CASE status = "ok"
  BY <1>1, <1>2, <1>3, <1>5, <1>6, <1>7, <1>9
     DEF Promise!Next, Promise!Confirm, Requests, States, Results
<1> QED
  BY <1>8, <1>9

-----------------------------------------------------------------------------
(***************************************************************************)
(* Restarts: what is found on the disk is what clients found, but for the  *)
(* writes whose effect they had not yet seen.                              *)
(***************************************************************************)
LEMMA NearlyThere ==
    ASSUME DataInv, NEW t \in Task, NEW r \in Resource, r = Res(t),
           \/ task[t].pc \in {"sync", "install", "register"}
           \/ task[t].pc \in {"unregister", "uncache"} /\ cache[r] # NoEntry
    PROVE  /\ AbstractStatus(t) = "waiting"
           /\ Op(t) # "read"
           /\ Promise!Applies(task[t].req, Visible[r])
           /\ Promise!Effect(task[t].req, Visible[r]) = NewValue(t)
<1>1. /\ task[t].status = "pending"
      /\ Op(t) \in UpdateOps \cup SetOps
      /\ task[t].pc = "install" => Op(t) \in UpdateOps
      /\ task[t].pc = "register" => Op(t) = "create_resource"
      /\ task[t].pc \in {"unregister", "uncache"} => Op(t) = "delete_resource"
      /\ Op(t) \in UpdateOps /\ task[t].pc \in {"sync", "install"} => task[t].value # Absent
  BY DEF DataInv, Inv, Shape, Allowed, Op, Replacing, SetOps
<1>2. UpdateOK(t) /\ SetOK(t)
  BY DEF DataInv, DataOK
<1>3. AbstractStatus(t) = "waiting"
  BY <1>1 DEF AbstractStatus, HasApplied
<1>4. Op(t) # "read"
  BY <1>1 DEF UpdateOps, ItemOps, ObjectOps, SetOps
<1>5. cache[r] \in {NoEntry} \cup Snapshot /\ Absent \notin Snapshot
  BY DbAssumption DEF DataInv, Inv, TypeOK
<1>6. Op(t) \in UpdateOps => Op(t) \notin {"create_resource", "delete_resource"}
  BY DEF UpdateOps, ItemOps, ObjectOps
<1>7. task[t].pc = "sync" =>
          /\ r \in resources <=> durable[r] # Absent
          /\ cache[r] # NoEntry => cache[r] = durable[r]
          /\ r \notin resources => cache[r] = NoEntry
  <2>1. task[t].pc = "sync" => r \in Held(task[t])
    BY Holds DEF DataInv, Locking
  <2> QED
    BY <2>1, NotBusy DEF Unsettled
<1>8. CASE Op(t) \in UpdateOps
  <2>1. task[t].pc \in {"sync", "install"} /\ task[t].value # Absent
    BY <1>1, <1>6, <1>8
  <2>2. /\ cache[r] # NoEntry /\ CanUpdate(task[t].req, cache[r])
        /\ task[t].value = Updated(task[t].req, cache[r])
    BY <1>2, <2>1 DEF UpdateOK, Replacing
  <2>3. Visible[r] = cache[r] /\ Visible[r] # Absent
    BY <1>5, <2>2 DEF Visible
  <2> QED
    BY <1>1, <1>3, <1>4, <1>8, <2>2, <2>3, EffectIs
<1>9. CASE Op(t) = "create_resource"
  <2>1. task[t].pc \in {"sync", "register"}
    BY <1>1, <1>6, <1>9
  <2>2. r \notin resources /\ cache[r] = NoEntry
    BY <1>2, <1>7, <1>9, <2>1 DEF SetOK, Replacing, SetOps
  <2>3. Visible[r] = Absent
    BY <2>2 DEF Visible
  <2> QED
    BY <1>1, <1>3, <1>4, <1>6, <1>9, <2>3, EffectIs
<1>10. CASE Op(t) = "delete_resource"
  <2>1. task[t].pc \in {"sync", "unregister", "uncache"}
    BY <1>1, <1>6, <1>10
  <2>2. Visible[r] # Absent
    <3>1. CASE cache[r] # NoEntry
      BY <1>5, <3>1 DEF Visible
    <3>2. CASE cache[r] = NoEntry
      <4>1. task[t].pc = "sync"
        BY <2>1, <3>2
      <4>2. r \in resources
        BY <1>2, <1>10, <4>1 DEF SetOK, Replacing, SetOps
      <4> QED
        BY <1>7, <3>2, <4>1, <4>2 DEF Visible
    <3> QED
      BY <3>1, <3>2
  <2> QED
    BY <1>1, <1>3, <1>4, <1>6, <1>10, <2>2, EffectIs
<1> QED
  BY <1>1, <1>8, <1>9, <1>10 DEF SetOps

LEMMA FoundAfterFailure ==
    ASSUME DataInv, NEW r \in Resource, NEW found \in {file[r], durable[r]}
    PROVE  \/ found = Visible[r]
           \/ \E t \in Task :
                  /\ AbstractStatus(t) = "waiting" /\ Op(t) # "read" /\ Res(t) = r
                  /\ Promise!Applies(task[t].req, Visible[r])
                  /\ found = Promise!Effect(task[t].req, Visible[r])
<1>1. CASE found = durable[r]
  <2>1. CASE ~Busy(r)
    <3>1. /\ r \in resources <=> durable[r] # Absent
          /\ cache[r] # NoEntry => cache[r] = durable[r]
      BY <2>1 DEF DataInv, Settled
    <3> QED
      BY <1>1, <3>1 DEF Visible
  <2>2. CASE Busy(r)
    <3>1. PICK t \in Task : task[t].pc \in Unsettled /\ Res(t) = r
      BY <2>2 DEF Busy
    <3>2. SetOK(t) /\ durable[r] = NewValue(t)
      BY <3>1 DEF DataInv, DataOK, DurableOK
    <3>3. CASE \/ task[t].pc \in {"install", "register"}
               \/ task[t].pc \in {"unregister", "uncache"} /\ cache[r] # NoEntry
      BY <1>1, <3>1, <3>2, <3>3, NearlyThere
    <3>4. CASE task[t].pc = "cache_new"
      BY <1>1, <3>1, <3>2, <3>4 DEF SetOK, Visible
    <3>5. CASE task[t].pc \in {"unregister", "uncache"} /\ cache[r] = NoEntry
      <4>1. NewValue(t) = Absent
        BY <3>5 DEF DataInv, Inv, Shape, Allowed, NewValue, Op
      <4> QED
        BY <1>1, <3>2, <3>5, <4>1 DEF Visible
    <3> QED
      BY <3>1, <3>3, <3>4, <3>5 DEF Unsettled
  <2> QED
    BY <2>1, <2>2
<1>2. CASE found = file[r] /\ found # durable[r]
  <2>1. PICK t \in Task : task[t].pc = "sync" /\ file = [durable EXCEPT ![Res(t)] = NewValue(t)]
    BY <1>2 DEF DataInv, FileInv
  <2>2. durable \in Content
    BY DEF DataInv, Inv, TypeOK
  <2>3. Res(t) = r /\ file[r] = NewValue(t)
    BY <1>2, <2>1, <2>2 DEF Content
  <2> QED
    BY <1>2, <2>1, <2>3, NearlyThere
<1> QED
  BY <1>1, <1>2

LEMMA RestartRefines ==
    ASSUME DataInv, Inv', Restart
    PROVE  DataInv' /\ [Promise!Next]_(Promise!vars)
<1> DEFINE Lost(w) == [IdleTask EXCEPT !.pc = "done", !.req = w.req, !.status = "lost"]
<1>1. /\ file' \in {file, durable} /\ durable' = file'
      /\ resources' = Keys(file') /\ cache' = [r \in Resource |-> NoEntry]
      /\ task' = [t \in Task |-> IF task[t].status # "pending" THEN task[t] ELSE Lost(task[t])]
  BY DEF Restart
<1>2. /\ \A t \in Task : Shape(task[t]) /\ task[t].status \in Status
      /\ file \in Content /\ durable \in Content
  BY DEF DataInv, Inv, TypeOK, TaskState
<1>3. ASSUME NEW t \in Task
      PROVE  /\ task'[t].pc \in {"idle", "done"}
             /\ task'[t].req = task[t].req
             /\ task[t].status = "pending" => task'[t].status = "lost"
             /\ task[t].status # "pending" => task'[t] = task[t]
  <2>1. Lost(task[t]).pc = "done" /\ Lost(task[t]).req = task[t].req
        /\ Lost(task[t]).status = "lost"
    BY DEF IdleTask
  <2>2. Shape(task[t])
    BY <1>2
  <2> QED
    BY <1>1, <2>1, <2>2 DEF Shape
<1>4. DataInv'
  <2>1. \A t \in Task : DataOK(t)'
    BY <1>3 DEF DataOK, UpdateOK, SetOK, DurableOK, Locking, Replacing, Unsettled
  <2>2. \A r \in Resource : Settled(r)'
    BY <1>1 DEF Settled, Keys
  <2>3. FileInv'
    <3>1. \A t \in Task : task'[t].pc # "sync"
      BY <1>3
    <3> QED
      BY <1>1, <3>1 DEF FileInv
  <2> QED
    BY <2>1, <2>2, <2>3 DEF DataInv
<1>5. \A r \in Resource : Visible'[r] = file'[r]
  BY <1>1 DEF Visible, Keys
<1>6. Visible' \in Promise!Content
  <2>1. file' \in Content
    BY <1>1, <1>2
  <2>2. Visible' = [r \in Resource |-> Visible'[r]]
    BY DEF Visible
  <2>3. \A r \in Resource : Visible'[r] \in {Absent} \cup Snapshot
    BY <1>5, <2>1 DEF Content
  <2> QED
    BY <2>2, <2>3 DEF Promise!Content, Promise!Snapshot, Snapshot, Promise!Id, Id,
                      Promise!Item, Item
<1>7. ASSUME NEW r \in Resource
      PROVE  \/ Visible'[r] = Visible[r]
             \/ \E t \in Task :
                    /\ States[t] = "waiting"
                    /\ Requests[t].op # "read"
                    /\ Promise!Target(Requests[t]) = r
                    /\ Promise!Applies(Requests[t], Visible[r])
                    /\ Visible'[r] = Promise!Effect(Requests[t], Visible[r])
  <2>1. file'[r] \in {file[r], durable[r]}
    BY <1>1
  <2>2. \A t \in Task : States[t] = AbstractStatus(t) /\ Requests[t] = task[t].req
    BY DEF States, Requests
  <2>3. \A t \in Task : Promise!Target(task[t].req) = Res(t)
    BY DEF Promise!Target, Res
  <2> QED
    BY <1>5, <2>1, <2>2, <2>3, FoundAfterFailure DEF Op
<1>8. /\ Requests' = Requests
      /\ Results' = Results
      /\ States' = [t \in Task |-> IF States[t] \in {"waiting", "applied"} THEN "lost"
                                   ELSE States[t]]
  <2>1. Requests' = Requests
    BY <1>3 DEF Requests
  <2>2. Results' = Results
    BY <1>3 DEF Results
  <2>3. ASSUME NEW t \in Task
        PROVE  AbstractStatus(t)' = IF AbstractStatus(t) \in {"waiting", "applied"} THEN "lost"
                                    ELSE AbstractStatus(t)
    <3>1. CASE task[t].status = "pending"
      BY <1>3, <3>1 DEF AbstractStatus
    <3>2. CASE task[t].status # "pending"
      BY <1>2, <1>3, <3>2 DEF AbstractStatus, Status
    <3> QED
      BY <3>1, <3>2
  <2> QED
    BY <2>1, <2>2, <2>3 DEF States
<1>9. Promise!Restart
  BY <1>6, <1>7, <1>8 DEF Promise!Restart, Promise!InFlight, Requests, States, Results
<1> QED
  BY <1>4, <1>9 DEF Promise!Next

-----------------------------------------------------------------------------
(***************************************************************************)
(* The theorems.                                                           *)
(***************************************************************************)
LEMMA InitRefines == Init => DataInv /\ Promise!Init
<1> SUFFICES ASSUME Init
             PROVE  DataInv /\ Promise!Init
  OBVIOUS
<1>1. /\ file = InitialFile /\ durable = InitialFile /\ resources = Keys(InitialFile)
      /\ cache = [r \in Resource |-> NoEntry] /\ task = [t \in Task |-> IdleTask]
  BY DEF Init
<1>2. \A t \in Task : task[t] = IdleTask
  BY <1>1
<1>3. /\ IdleTask.pc = "idle" /\ IdleTask.status = "idle" /\ IdleTask.req = NoRequest
  BY DEF IdleTask
<1>4. \A t \in Task : DataOK(t)
  BY <1>2, <1>3 DEF DataOK, UpdateOK, SetOK, DurableOK, Locking, Replacing, Unsettled
<1>5. \A r \in Resource : Settled(r)
  BY <1>1 DEF Settled, Keys
<1>6. FileInv
  BY <1>1, <1>2, <1>3 DEF FileInv
<1>7. Inv
  BY InitInv
<1>8. Visible = [r \in Resource |-> InitialFile[r]]
  BY <1>1 DEF Visible, Keys
<1>9. Visible \in Promise!Content
  <2>1. InitialFile \in Content
    BY DbAssumption
  <2> QED
    BY <1>8, <2>1 DEF Content, Promise!Content, Promise!Snapshot, Snapshot, Promise!Id, Id,
                      Promise!Item, Item
<1>10. Promise!Init
  BY <1>2, <1>3, <1>9 DEF Promise!Init, AbstractStatus, NoKeys, Promise!NoDocuments
<1> QED
  BY <1>4, <1>5, <1>6, <1>7, <1>10 DEF DataInv

LEMMA StepRefines == DataInv /\ [Next]_vars => DataInv' /\ [Promise!Next]_(Promise!vars)
<1> SUFFICES ASSUME DataInv, [Next]_vars
             PROVE  DataInv' /\ [Promise!Next]_(Promise!vars)
  OBVIOUS
<1>1. Inv'
  BY NextInv DEF DataInv
<1>2. ASSUME NEW t \in Task, Submit(t)
      PROVE  DataInv' /\ [Promise!Next]_(Promise!vars)
  BY <1>1, <1>2, SubmitRefines
<1>3. ASSUME NEW t \in Task, Handle(t)
      PROVE  DataInv' /\ [Promise!Next]_(Promise!vars)
  BY <1>1, <1>3, AcquireRefines, LoadNextRefines, AnswerReadRefines, ApplyUpdateRefines,
     CheckRegisteredRefines, LockFileRefines, OpenDbFileRefines, RenameRefines,
     FailureRefines, SyncDirRefines, InstallRefines, ChangeSetRefines
     DEF Handle
<1>4. CASE Restart
  BY <1>1, <1>4, RestartRefines
<1>5. CASE UNCHANGED vars
  <2>1. UNCHANGED <<file, durable, resources, cache, task>>
    BY <1>5 DEF vars
  <2>2. DataInv'
    BY <1>1, <2>1
       DEF DataInv, DataOK, UpdateOK, SetOK, DurableOK, Settled, Busy, FileInv, Res, Op,
           Subjects, NewValue
  <2>3. UNCHANGED Promise!vars
    BY <2>1 DEF Promise!vars, Visible, AbstractStatus, HasApplied, Res
  <2> QED
    BY <2>2, <2>3
<1> QED
  BY <1>2, <1>3, <1>4, <1>5 DEF Next, Rest

\* What each handler relies on between its steps holds in every reachable state.
THEOREM DataInvariance == Spec => []DataInv
<1>1. Init => DataInv
  BY InitRefines
<1>2. DataInv /\ [Next]_vars => DataInv'
  BY StepRefines
<1> QED
  BY <1>1, <1>2, PTL DEF Spec

\* The server over a database file implements the atomic store: every request
\* takes effect at one moment between its arrival and its answer, and what was
\* answered survives a crash.
THEOREM ImplementsAtomicStore == Spec => Linearizable
<1>1. Init => Promise!Init
  BY InitRefines
<1>2. DataInv /\ [Next]_vars => [Promise!Next]_(Promise!vars)
  BY StepRefines
<1> QED
  BY <1>1, <1>2, DataInvariance, PTL DEF Spec, Linearizable, Promise!Spec
=============================================================================
