---------------------------- MODULE DbServerProofs ----------------------------
(***************************************************************************)
(* Locks and types of DbServer, for any number of requests, resources and  *)
(* crashes.                                                                *)
(*                                                                         *)
(* What has to be known of a lock is who is in its line: exactly the       *)
(* handlers that are past asking for it and have not given it back, each   *)
(* once, any two of them one after the other, and those that went on with  *)
(* the lock have nobody in front of them that would keep them from it.     *)
(***************************************************************************)
EXTENDS DbServer, TLAPS

\* Phases of a handler.
Locking == {"lookup", "insert", "await"}
Replacing == {"flock", "open", "rename", "sync"}
InFile == {"open", "rename", "sync"}
SetOps == {"create_resource", "delete_resource"}

\* What a handler has asked for or will ask for, what it was given of that,
\* and the locks in whose lines it is.
Names(w) == {w.req.names[i] : i \in DOMAIN w.req.names}
WantsDb(w) ==
    /\ w.req.op \in UpdateOps
    /\ w.pc \in Replacing \/ (w.pc \in Locking /\ w.value # Absent)
Wanted(w) ==
    IF w.pc \in {"idle", "done"} THEN {}
    ELSE Names(w) \cup (IF WantsDb(w) THEN {DbLock} ELSE {})
Held(w) == Wanted(w) \ w.todo
InLine(w) == Held(w) \cup (IF w.pc = "await" THEN {w.lock} ELSE {})

ModeOf(w) == IF w.req.op = "read" THEN "read" ELSE "write"

\* Which operations get to which steps, and what the handler has by then.
Allowed(w) ==
    /\ w.pc = "load" => w.req.op = "read"
    /\ w.pc = "apply" => w.req.op \in UpdateOps /\ w.value = Absent
    /\ w.pc = "check" => w.req.op \in SetOps
    /\ w.pc \in Replacing \cup {"refresh"} => w.req.op \in UpdateOps \cup SetOps
    /\ w.pc = "install" => w.req.op \in UpdateOps
    /\ w.pc \in {"register", "cache_new"} => w.req.op = "create_resource"
    /\ w.pc \in {"unregister", "uncache"} => w.req.op = "delete_resource"
    /\ w.req.op \in UpdateOps /\ w.pc \in Replacing \cup {"install"} => w.value # Absent
    /\ w.value # Absent => w.req.op \in UpdateOps

\* What is still to be locked comes after what was locked.
InOrder(w) ==
    /\ w.pc \in Locking =>
           IF w.value = Absent
           THEN /\ w.todo \subseteq Names(w) /\ w.todo # {}
                /\ \A m \in Names(w) \ w.todo, n \in w.todo : Rank[m] < Rank[n]
           ELSE w.todo = {DbLock}
    /\ w.pc \notin Locking => w.todo = {}
    /\ w.pc \in {"insert", "await"} =>
           w.lock \in w.todo /\ \A n \in w.todo : Rank[w.lock] <= Rank[n]

Shape(w) ==
    /\ w.pc = "idle" <=> w.status = "idle"
    /\ w.pc \notin {"idle", "done"} <=> w.status = "pending"
    /\ w.pc # "idle" => w.req \in Request /\ w.req.names # <<>>
    /\ w.pc = "idle" => w.value = Absent
    /\ w.pc \notin {"load", "done"} => w.result = NoKeys
    /\ w.pc \notin {"idle", "done"} => Allowed(w)
    /\ InOrder(w)

LineOK(line, n, tasks) ==
    /\ \A t \in Task : n \in InLine(tasks[t]) <=> \E w \in line : w.task = t
    /\ \A v, w \in line : v.task = w.task => v = w
    /\ \A v, w \in line : v.task # w.task => v.task \in w.ahead \/ w.task \in v.ahead
    /\ \A w \in line : \A u \in w.ahead : \E v \in line : v.task = u
    /\ \A w \in line : w.mode = ModeOf(tasks[w.task])
    /\ \A w \in line : n \in Held(tasks[w.task]) => IsServed(w, line)

FileLockInv == \A t \in Task : task[t].pc \in InFile <=> flock = t

Inv ==
    /\ TypeOK
    /\ \A t \in Task : Shape(task[t])
    /\ \A n \in Name : LineOK(Line(n), n, task)
    /\ FileLockInv

-----------------------------------------------------------------------------
(***************************************************************************)
(* One line: nothing happens to it, somebody joins, is served, or leaves.  *)
(***************************************************************************)

\* The handlers but one stay as they are.
Others(tasks, after, t) == \A u \in Task \ {t} : after[u] = tasks[u]

LEMMA LineStays ==
    ASSUME NEW line \in SUBSET Waiter, NEW n, NEW tasks, NEW after, NEW t \in Task,
           LineOK(line, n, tasks), Others(tasks, after, t),
           n \in InLine(after[t]) <=> n \in InLine(tasks[t]),
           n \in Held(after[t]) => n \in Held(tasks[t]),
           n \in InLine(tasks[t]) => ModeOf(after[t]) = ModeOf(tasks[t])
    PROVE  LineOK(line, n, after)
<1>1. \A w \in line : w.task \in Task
  BY DEF Waiter
<1>2. \A w \in line : w.task # t => after[w.task] = tasks[w.task]
  BY <1>1 DEF Others
<1>3. \A u \in Task : n \in InLine(after[u]) <=> n \in InLine(tasks[u])
  BY DEF Others
<1>4. \A w \in line : w.mode = ModeOf(after[w.task])
  BY <1>1, <1>2 DEF LineOK
<1>5. \A w \in line : n \in Held(after[w.task]) => IsServed(w, line)
  BY <1>1, <1>2 DEF LineOK
<1> QED
  BY <1>3, <1>4, <1>5 DEF LineOK

LEMMA LineServes ==
    ASSUME NEW line \in SUBSET Waiter, NEW n, NEW tasks, NEW after, NEW t \in Task,
           LineOK(line, n, tasks), Others(tasks, after, t),
           n \in InLine(after[t]) <=> n \in InLine(tasks[t]),
           \A w \in line : w.task = t => IsServed(w, line),
           ModeOf(after[t]) = ModeOf(tasks[t])
    PROVE  LineOK(line, n, after)
<1>1. \A w \in line : w.task \in Task
  BY DEF Waiter
<1>2. \A w \in line : w.task # t => after[w.task] = tasks[w.task]
  BY <1>1 DEF Others
<1>3. \A u \in Task : n \in InLine(after[u]) <=> n \in InLine(tasks[u])
  BY DEF Others
<1>4. \A w \in line : w.mode = ModeOf(after[w.task])
  BY <1>1, <1>2 DEF LineOK
<1>5. \A w \in line : n \in Held(after[w.task]) => IsServed(w, line)
  BY <1>1, <1>2 DEF LineOK
<1> QED
  BY <1>3, <1>4, <1>5 DEF LineOK

\* Whoever joins is behind all the others, who do not notice.
LEMMA LineGrows ==
    ASSUME NEW line \in SUBSET Waiter, NEW n, NEW tasks, NEW after, NEW t \in Task,
           LineOK(line, n, tasks), Others(tasks, after, t),
           n \notin InLine(tasks[t]), n \in InLine(after[t]), n \notin Held(after[t]),
           NEW x \in Waiter, x.task = t, x.mode = ModeOf(after[t]),
           x.ahead = {w.task : w \in line}
    PROVE  LineOK(line \cup {x}, n, after)
<1> DEFINE grown == line \cup {x}
<1>1. \A w \in line : w.task \in Task
  BY DEF Waiter
<1>2. \A w \in line : w.task # t
  BY <1>1 DEF LineOK
<1>3. \A w \in line : after[w.task] = tasks[w.task]
  BY <1>1, <1>2 DEF Others
<1>4. \A w \in line : t \notin w.ahead
  BY <1>2 DEF LineOK
<1>5. \A u \in Task : n \in InLine(after[u]) <=> \E w \in grown : w.task = u
  BY <1>2 DEF LineOK, Others
<1>6. \A v, w \in grown : v.task = w.task => v = w
  BY <1>2 DEF LineOK
<1>7. \A v, w \in grown : v.task # w.task => v.task \in w.ahead \/ w.task \in v.ahead
  BY DEF LineOK
<1>8. \A w \in grown : w.mode = ModeOf(after[w.task])
  BY <1>3 DEF LineOK
<1>9. \A w \in grown : \A u \in w.ahead : \E v \in grown : v.task = u
  BY DEF LineOK
<1>10. \A w \in grown : n \in Held(after[w.task]) => IsServed(w, grown)
  <2> SUFFICES ASSUME NEW w \in grown, n \in Held(after[w.task])
               PROVE  IsServed(w, grown)
    OBVIOUS
  <2>1. w \in line
    OBVIOUS
  <2>2. IsServed(w, line)
    BY <1>3, <2>1 DEF LineOK
  <2> QED
    BY <2>1, <2>2, <1>4 DEF IsServed
<1> QED
  BY <1>5, <1>6, <1>7, <1>8, <1>9, <1>10 DEF LineOK

\* Whoever leaves was in front of some, who are served all the sooner.
Without(line, t) == {[w EXCEPT !.ahead = @ \ {t}] : w \in {v \in line : v.task # t}}

LEMMA LineLeaves ==
    ASSUME NEW line \in SUBSET Waiter, NEW n, NEW tasks, NEW after, NEW t \in Task,
           LineOK(line, n, tasks), Others(tasks, after, t),
           n \notin InLine(after[t])
    PROVE  /\ LineOK(Without(line, t), n, after)
           /\ Without(line, t) \in SUBSET Waiter
<1> DEFINE rest == Without(line, t)
<1>1. \A w \in line : w.task \in Task /\ w.ahead \in SUBSET Task
  BY DEF Waiter
<1>2. \A x \in rest : \E w \in line :
          /\ w.task # t
          /\ x = [w EXCEPT !.ahead = @ \ {t}]
  BY DEF Without
<1>3. \A x \in rest : \E w \in line :
          /\ w.task # t
          /\ x.task = w.task /\ x.mode = w.mode /\ x.ahead = w.ahead \ {t}
  BY <1>2 DEF Waiter
<1>4. \A w \in line : w.task # t =>
          \E x \in rest : x.task = w.task /\ x.mode = w.mode /\ x.ahead = w.ahead \ {t}
  <2> SUFFICES ASSUME NEW w \in line, w.task # t
               PROVE  \E x \in rest :
                          /\ x.task = w.task /\ x.mode = w.mode
                          /\ x.ahead = w.ahead \ {t}
    OBVIOUS
  <2> DEFINE x == [w EXCEPT !.ahead = @ \ {t}]
  <2>1. x \in rest
    BY DEF Without
  <2>2. x.task = w.task /\ x.mode = w.mode /\ x.ahead = w.ahead \ {t}
    BY DEF Waiter
  <2> QED
    BY <2>1, <2>2
<1>5. rest \in SUBSET Waiter
  BY <1>1 DEF Without, Waiter
<1>6. \A w \in line : w.task # t => after[w.task] = tasks[w.task]
  BY <1>1 DEF Others
<1>7. \A u \in Task : n \in InLine(after[u]) <=> \E x \in rest : x.task = u
  <2> SUFFICES ASSUME NEW u \in Task
               PROVE  n \in InLine(after[u]) <=> \E x \in rest : x.task = u
    OBVIOUS
  <2>1. n \in InLine(tasks[u]) <=> \E w \in line : w.task = u
    BY DEF LineOK
  <2>2. CASE u = t
    BY <1>3, <2>2
  <2>3. CASE u # t
    <3>1. after[u] = tasks[u]
      BY <2>3 DEF Others
    <3>2. (\E w \in line : w.task = u) <=> (\E x \in rest : x.task = u)
      <4>1. ASSUME NEW w \in line, w.task = u
            PROVE  \E x \in rest : x.task = u
        BY <1>4, <2>3, <4>1
      <4>2. ASSUME NEW x \in rest, x.task = u
            PROVE  \E w \in line : w.task = u
        BY <1>3, <4>2
      <4> QED
        BY <4>1, <4>2
    <3> QED
      BY <2>1, <3>1, <3>2
  <2> QED
    BY <2>2, <2>3
<1>8. \A x, y \in rest : x.task = y.task => x = y
  <2> SUFFICES ASSUME NEW x \in rest, NEW y \in rest, x.task = y.task
               PROVE  x = y
    OBVIOUS
  <2>1. PICK v \in line : x = [v EXCEPT !.ahead = @ \ {t}]
    BY <1>2
  <2>2. PICK w \in line : y = [w EXCEPT !.ahead = @ \ {t}]
    BY <1>2
  <2>3. x.task = v.task /\ y.task = w.task
    BY <2>1, <2>2 DEF Waiter
  <2>4. \A a, b \in line : a.task = b.task => a = b
    BY DEF LineOK
  <2>5. v = w
    BY <2>3, <2>4
  <2> QED
    BY <2>1, <2>2, <2>5
<1>9. \A x, y \in rest : x.task # y.task => x.task \in y.ahead \/ y.task \in x.ahead
  BY <1>3 DEF LineOK
<1>10. \A x \in rest : \A u \in x.ahead : \E y \in rest : y.task = u
  BY <1>3, <1>4 DEF LineOK
<1>11. \A x \in rest : x.mode = ModeOf(after[x.task])
  BY <1>3, <1>6 DEF LineOK
<1>12. \A x \in rest : n \in Held(after[x.task]) => IsServed(x, rest)
  <2> SUFFICES ASSUME NEW x \in rest, n \in Held(after[x.task])
               PROVE  IsServed(x, rest)
    OBVIOUS
  <2>1. PICK w \in line : w.task # t /\ x.task = w.task /\ x.mode = w.mode
                          /\ x.ahead = w.ahead \ {t}
    BY <1>3
  <2>2. IsServed(w, line)
    BY <1>6, <2>1 DEF LineOK
  <2> QED
    BY <1>3, <2>1, <2>2 DEF IsServed
<1> QED
  BY <1>5, <1>7, <1>8, <1>9, <1>10, <1>11, <1>12 DEF LineOK

\* Two that hold the same lock are both readers.
LEMMA Exclusive ==
    ASSUME NEW line \in SUBSET Waiter, NEW n, NEW tasks, LineOK(line, n, tasks),
           NEW t \in Task, NEW u \in Task, t # u,
           n \in Held(tasks[t]), n \in Held(tasks[u])
    PROVE  ModeOf(tasks[t]) = "read" /\ ModeOf(tasks[u]) = "read"
<1>1. PICK v \in line : v.task = t
  BY DEF LineOK, InLine
<1>2. PICK w \in line : w.task = u
  BY DEF LineOK, InLine
<1>3. IsServed(v, line) /\ IsServed(w, line)
  BY <1>1, <1>2 DEF LineOK
<1>4. v.task \in w.ahead \/ w.task \in v.ahead
  BY <1>1, <1>2 DEF LineOK
<1>5. v.mode = ModeOf(tasks[t]) /\ w.mode = ModeOf(tasks[u])
  BY <1>1, <1>2 DEF LineOK
<1> QED
  BY <1>3, <1>4, <1>5 DEF IsServed

-----------------------------------------------------------------------------
(***************************************************************************)
(* One handler moves: what a step has to show for the invariant.           *)
(***************************************************************************)
StoreOK ==
    /\ file \in Content
    /\ durable \in Content
    /\ flock \in {NoTask} \cup Task
    /\ resources \subseteq Resource
    /\ cache \in [Resource -> {NoEntry} \cup Snapshot]
    /\ crashes \in 0..MaxCrashes

Lines(after) == \A n \in Name : LineOK(Line(n), n, after)

LEMMA Moved ==
    ASSUME Inv, NEW t \in Task,
           StoreOK', task' \in [Task -> TaskState], locks' \in LockTable,
           Others(task, task', t), Shape(task'[t]), Lines(task)', FileLockInv'
    PROVE  Inv'
<1>1. TypeOK'
  BY DEF TypeOK, StoreOK
<1>2. \A u \in Task : Shape(task[u])'
  BY DEF Inv, Others
<1> QED
  BY <1>1, <1>2 DEF Inv, Lines

LEMMA TaskType ==
    ASSUME Inv, NEW t \in Task
    PROVE  /\ task[t] \in TaskState
           /\ task \in [Task -> TaskState]
           /\ Shape(task[t])
           /\ StoreOK
           /\ locks \in LockTable
BY DEF Inv, TypeOK, StoreOK

LEMMA LinesType ==
    ASSUME Inv, NEW n \in Name
    PROVE  Line(n) \in SUBSET Waiter /\ LineOK(Line(n), n, task)
<1>1. locks \in LockTable
  BY DEF Inv, TypeOK
<1> QED
  BY <1>1 DEF Inv, LockTable, Line

LEMMA LinesStay ==
    ASSUME Inv, NEW t \in Task, Others(task, task', t), locks' = locks,
           InLine(task'[t]) = InLine(task[t]), Held(task'[t]) \subseteq Held(task[t]),
           InLine(task[t]) # {} => ModeOf(task'[t]) = ModeOf(task[t])
    PROVE  Lines(task)'
<1> SUFFICES ASSUME NEW n \in Name
             PROVE  LineOK(Line(n), n, task')
  BY DEF Lines, Line
<1>1. Line(n) \in SUBSET Waiter /\ LineOK(Line(n), n, task)
  BY LinesType
<1> QED
  BY <1>1, LineStays

LEMMA LinesDrop ==
    ASSUME Inv, NEW t \in Task, Others(task, task', t),
           NEW names \in SUBSET Name, Release(t, names),
           InLine(task'[t]) \cap names = {},
           \A n \in Name \ names : n \in InLine(task'[t]) <=> n \in InLine(task[t]),
           Held(task'[t]) \subseteq Held(task[t]),
           InLine(task'[t]) # {} => ModeOf(task'[t]) = ModeOf(task[t])
    PROVE  Lines(task)' /\ locks' \in LockTable
<1>1. \A n \in Name : n \in names => Line(n)' = Without(Line(n), t)
  <2> SUFFICES ASSUME NEW n \in Name, n \in names
               PROVE  locks'[n].line = Without(locks[n].line, t)
    BY DEF Line
  <2>1. locks[n] \in [made : BOOLEAN, line : SUBSET Waiter]
    BY DEF Inv, TypeOK, LockTable
  <2>2. locks'[n] = [locks[n] EXCEPT !.line = Without(locks[n].line, t)]
    BY DEF Release, Without
  <2> QED
    BY <2>1, <2>2
<1>2. \A n \in Name : n \notin names => locks'[n] = locks[n]
  BY DEF Release
<1>3. \A n \in Name : LineOK(Line(n)', n, task') /\ Line(n)' \in SUBSET Waiter
  <2> SUFFICES ASSUME NEW n \in Name
               PROVE  LineOK(Line(n)', n, task') /\ Line(n)' \in SUBSET Waiter
    OBVIOUS
  <2>1. Line(n) \in SUBSET Waiter /\ LineOK(Line(n), n, task)
    BY LinesType
  <2>2. CASE n \in names
    <3>1. n \notin InLine(task'[t])
      BY <2>2
    <3> QED
      BY <1>1, <2>1, <2>2, <3>1, LineLeaves
  <2>3. CASE n \notin names
    <3>1. Line(n)' = Line(n)
      BY <1>2, <2>3 DEF Line
    <3>2. n \in InLine(task'[t]) <=> n \in InLine(task[t])
      BY <2>3
    <3>3. n \in InLine(task[t]) => ModeOf(task'[t]) = ModeOf(task[t])
      BY <3>2
    <3>4. LineOK(Line(n), n, task')
      BY <2>1, <3>2, <3>3, LineStays
    <3> QED
      BY <2>1, <3>1, <3>4
  <2> QED
    BY <2>2, <2>3
<1>4. locks' \in LockTable
  <2>1. locks' = [n \in Name |-> locks'[n]]
    BY DEF Release
  <2>2. \A n \in Name : locks'[n] \in [made : BOOLEAN, line : SUBSET Waiter]
    <3> SUFFICES ASSUME NEW n \in Name
                 PROVE  locks'[n] \in [made : BOOLEAN, line : SUBSET Waiter]
      OBVIOUS
    <3>1. locks[n] \in [made : BOOLEAN, line : SUBSET Waiter]
      BY DEF Inv, TypeOK, LockTable
    <3>2. locks'[n].line \in SUBSET Waiter
      BY <1>3 DEF Line
    <3>3. CASE n \in names
      <4>1. locks'[n] = [locks[n] EXCEPT !.line = Without(locks[n].line, t)]
        BY <3>3 DEF Release, Without
      <4> QED
        BY <3>1, <3>2, <4>1
    <3>4. CASE n \notin names
      BY <1>2, <3>1, <3>4
    <3> QED
      BY <3>3, <3>4
  <2> QED
    BY <2>1, <2>2 DEF LockTable
<1> QED
  BY <1>3, <1>4 DEF Lines

LEMMA LinesGrow ==
    ASSUME Inv, NEW t \in Task, NEW n \in Name, Others(task, task', t),
           Enqueue(t, n, ModeOf(task'[t])),
           n \notin InLine(task[t]), n \notin Held(task'[t]),
           InLine(task'[t]) = InLine(task[t]) \cup {n},
           Held(task'[t]) = Held(task[t]),
           ModeOf(task'[t]) = ModeOf(task[t])
    PROVE  Lines(task)' /\ locks' \in LockTable
<1> DEFINE x == NewWaiter(t, n, ModeOf(task'[t]))
<1>1. Line(n) \in SUBSET Waiter /\ LineOK(Line(n), n, task)
  BY LinesType
<1>2. x \in Waiter /\ x.task = t /\ x.mode = ModeOf(task'[t])
      /\ x.ahead = {w.task : w \in Line(n)}
  BY <1>1 DEF NewWaiter, Waiter, Mode, ModeOf
<1>3. locks \in LockTable
  BY DEF Inv, TypeOK
<1>4. locks' = [locks EXCEPT ![n] = [made |-> TRUE, line |-> Line(n) \cup {x}]]
  BY DEF Enqueue, Line
<1>5. locks' \in LockTable
  BY <1>1, <1>2, <1>3, <1>4 DEF LockTable
<1>6. Line(n)' = Line(n) \cup {x}
  BY <1>3, <1>4 DEF LockTable, Line
<1>7. LineOK(Line(n) \cup {x}, n, task')
  BY <1>1, <1>2, LineGrows
<1>8. \A m \in Name \ {n} : LineOK(Line(m)', m, task')
  <2> SUFFICES ASSUME NEW m \in Name \ {n}
               PROVE  LineOK(Line(m)', m, task')
    OBVIOUS
  <2>1. Line(m)' = Line(m)
    BY <1>3, <1>4 DEF LockTable, Line
  <2>2. Line(m) \in SUBSET Waiter /\ LineOK(Line(m), m, task)
    BY LinesType
  <2> QED
    BY <2>1, <2>2, LineStays
<1> QED
  BY <1>5, <1>6, <1>7, <1>8 DEF Lines

-----------------------------------------------------------------------------
(***************************************************************************)
(* The requests and what the update closures make of a document.           *)
(***************************************************************************)
LEMMA NamesType ==
    ASSUME Inv, NEW t \in Task, task[t].pc # "idle"
    PROVE  /\ task[t].req \in Request
           /\ Names(task[t]) \in SUBSET Resource
           /\ Names(task[t]) # {}
           /\ Res(t) \in Names(task[t])
           /\ Res(t) \in Resource
           /\ Subjects(t) = Names(task[t])
           /\ DbLock \notin Names(task[t])
<1>1. task[t].req \in Request /\ task[t].req.names # <<>>
  BY DEF Inv, Shape
<1>2. task[t].req.names \in Seq(Resource)
  BY <1>1 DEF Request
<1>3. Names(task[t]) \in SUBSET Resource
  BY <1>2 DEF Names
<1>4. 1 \in DOMAIN task[t].req.names
  BY <1>1, <1>2
<1> QED
  BY <1>1, <1>3, <1>4, DbAssumption DEF Names, Res, Subjects

LEMMA UpdatedType ==
    ASSUME NEW req \in Request, req.op \in UpdateOps, NEW s \in Snapshot, CanUpdate(req, s)
    PROVE  Updated(req, s) \in Snapshot
<1> DEFINE i == Position(req, s)
<1>1. i \in Id /\ req.item \in Item
  BY DEF CanUpdate, Request
<1>2. s[i] \in {NoItem} \cup Item
  BY <1>1 DEF Snapshot
<1>3. CASE req.op = "delete_item"
  <2>1. Updated(req, s) = [s EXCEPT ![i] = NoItem]
    BY <1>3 DEF Updated
  <2> QED
    BY <1>1, <2>1 DEF Snapshot
<1>4. CASE req.op \in {"patch_item", "patch_object"}
  <2>1. s[i] # NoItem
    <3>1. CASE req.op = "patch_item"
      BY <1>1, <3>1 DEF CanUpdate, Position, ItemOps, ObjectOps
    <3>2. CASE req.op = "patch_object"
      BY <1>1, <3>2 DEF CanUpdate, Position, IsArray, ObjectOps
    <3> QED
      BY <1>4, <3>1, <3>2
  <2>2. s[i] \cup req.item \in Item
    BY <1>1, <1>2, <2>1 DEF Item
  <2>3. Updated(req, s) = [s EXCEPT ![i] = s[i] \cup req.item]
    BY <1>4 DEF Updated
  <2> QED
    BY <1>1, <2>2, <2>3 DEF Snapshot
<1>5. CASE req.op \notin {"delete_item", "patch_item", "patch_object"}
  <2>1. Updated(req, s) = [s EXCEPT ![i] = req.item]
    BY <1>5 DEF Updated
  <2> QED
    BY <1>1, <2>1 DEF Snapshot
<1> QED
  BY <1>3, <1>4, <1>5

LEMMA FoundType ==
    ASSUME Inv, NEW r \in Resource
    PROVE  /\ Found(r) \in {Absent} \cup Snapshot
           /\ FillCache(r) => cache' \in [Resource -> {NoEntry} \cup Snapshot]
<1>1. file \in Content /\ cache \in [Resource -> {NoEntry} \cup Snapshot]
  BY DEF Inv, TypeOK
<1>2. Found(r) \in {Absent} \cup Snapshot
  BY <1>1 DEF Found, Content
<1> QED
  BY <1>1, <1>2 DEF FillCache

-----------------------------------------------------------------------------
(***************************************************************************)
(* Steps that many actions have in common.                                 *)
(***************************************************************************)

\* The answer, from any step of a request that was not answered yet.
LEMMA Answered ==
    ASSUME Inv, NEW t \in Task, task[t].pc \notin {"idle", "done"},
           NEW status \in {"ok", "rejected", "failed"}, Answer(t, status)
    PROVE  /\ task' \in [Task -> TaskState]
           /\ Others(task, task', t)
           /\ task'[t].pc = "done"
           /\ Shape(task'[t])
           /\ Lines(task)'
           /\ locks' \in LockTable
<1> DEFINE after == [IdleTask EXCEPT !.pc = "done", !.req = task[t].req, !.status = status,
                        !.result = IF status = "ok" THEN task[t].result ELSE NoKeys]
<1>1. /\ task[t] \in TaskState /\ task \in [Task -> TaskState] /\ Shape(task[t])
  BY TaskType
<1>2. task' = [task EXCEPT ![t] = after] /\ Release(t, Name)
  BY DEF Answer
<1>3. /\ after.pc = "done" /\ after.req = task[t].req /\ after.status = status
      /\ after.todo = {} /\ after.value = Absent
      /\ after.result = IF status = "ok" THEN task[t].result ELSE NoKeys
  BY DEF IdleTask
<1>4. after \in TaskState
  <2>1. NoKeys \in Content
    BY DEF NoKeys, Content
  <2>2. DbLock \in Name
    BY DbAssumption
  <2>3. task[t].result \in Content
    BY <1>1 DEF TaskState
  <2> QED
    BY <1>1, <2>1, <2>2, <2>3 DEF IdleTask, TaskState, PC, Status
<1>5. task' \in [Task -> TaskState] /\ task'[t] = after /\ Others(task, task', t)
  BY <1>1, <1>2, <1>4 DEF Others
<1>6. Shape(after)
  BY <1>1, <1>3 DEF Shape, InOrder, Locking
<1>7. InLine(after) = {} /\ Held(after) = {}
  BY <1>3 DEF InLine, Held, Wanted
<1>8. Lines(task)' /\ locks' \in LockTable
  BY <1>2, <1>5, <1>7, LinesDrop
<1> QED
  BY <1>3, <1>5, <1>6, <1>8

\* A step that changes no lock, between two steps that need the same locks.
LEMMA Passed ==
    ASSUME Inv, NEW t \in Task, locks' = locks, Others(task, task', t),
           task[t].pc \notin Locking \cup {"idle", "done"},
           task'[t].pc \notin Locking \cup {"idle", "done"},
           task'[t].req = task[t].req, task'[t].todo = task[t].todo,
           task[t].req.op \in UpdateOps =>
               (task[t].pc \in Replacing <=> task'[t].pc \in Replacing)
    PROVE  Lines(task)' /\ locks' \in LockTable
<1>1. Held(task'[t]) = Held(task[t]) /\ InLine(task'[t]) = InLine(task[t])
  BY DEF Held, InLine, Wanted, WantsDb, Names, Locking
<1>2. ModeOf(task'[t]) = ModeOf(task[t])
  BY DEF ModeOf
<1> QED
  BY <1>1, <1>2, LinesStay, TaskType

\* Nothing about the lock of the database file.
LEMMA FileLockKept ==
    ASSUME Inv, NEW t \in Task, Others(task, task', t), flock' = flock,
           task'[t].pc \in InFile <=> task[t].pc \in InFile
    PROVE  FileLockInv'
BY DEF Inv, FileLockInv, Others

\* The lock of the database file is given back.
LEMMA FileLockDropped ==
    ASSUME Inv, NEW t \in Task, Others(task, task', t), flock' = NoTask,
           task[t].pc \in InFile, task'[t].pc \notin InFile
    PROVE  FileLockInv'
<1>1. flock = t
  BY DEF Inv, FileLockInv
<1>2. \A u \in Task \ {t} : task[u].pc \notin InFile
  BY <1>1 DEF Inv, FileLockInv
<1> QED
  BY <1>2, DbAssumption DEF FileLockInv, Others

-----------------------------------------------------------------------------
(***************************************************************************)
(* Arrival and locks.                                                      *)
(***************************************************************************)
LEMMA SubmitKeeps ==
    ASSUME Inv, NEW t \in Task, Submit(t)
    PROVE  Inv'
<1>1. /\ task[t] \in TaskState /\ task \in [Task -> TaskState] /\ Shape(task[t])
      /\ StoreOK /\ locks \in LockTable
  BY TaskType
<1>2. PICK req \in Workload[t] :
          task' = [task EXCEPT ![t].pc = "lookup", ![t].req = req, ![t].status = "pending",
                               ![t].todo = {req.names[i] : i \in DOMAIN req.names}]
  BY DEF Submit
<1>3. task[t].pc = "idle" /\ storeVars' = storeVars /\ locks' = locks
  BY DEF Submit, At
<1>4. req \in Request /\ req.names # <<>>
  BY DbAssumption
<1> DEFINE after == task'[t]
           names == {req.names[i] : i \in DOMAIN req.names}
<1>5. /\ after = [task[t] EXCEPT !.pc = "lookup", !.req = req, !.status = "pending",
                                 !.todo = names]
      /\ Others(task, task', t)
  BY <1>1, <1>2 DEF Others
<1>6. names \in SUBSET Resource /\ names # {}
  <2>1. req.names \in Seq(Resource)
    BY <1>4 DEF Request
  <2>2. 1 \in DOMAIN req.names
    BY <1>4, <2>1
  <2>3. req.names[1] \in names
    BY <2>2
  <2>4. \A i \in DOMAIN req.names : req.names[i] \in Resource
    BY <2>1
  <2> QED
    BY <2>3, <2>4
<1>7. after \in TaskState
  <2>1. names \in SUBSET Name /\ req \in {NoRequest} \cup Request
    BY <1>4, <1>6, DbAssumption
  <2>2. "lookup" \in PC /\ "pending" \in Status
    BY DEF PC, Status
  <2> HIDE DEF names, after
  <2> QED
    BY <1>1, <1>5, <2>1, <2>2, Zenon DEF TaskState
<1>8. task' \in [Task -> TaskState]
  BY <1>1, <1>2, <1>5, <1>7
<1>9. /\ after.pc = "lookup" /\ after.req = req /\ after.status = "pending"
      /\ after.todo = names /\ after.value = Absent /\ after.result = NoKeys
  BY <1>1, <1>3, <1>5 DEF TaskState, Shape
<1>10. Shape(after)
  BY <1>4, <1>6, <1>9 DEF Shape, Allowed, InOrder, Locking, Replacing, Names, SetOps
<1>11. InLine(after) = {} /\ Held(after) = {} /\ InLine(task[t]) = {}
  BY <1>3, <1>9 DEF InLine, Held, Wanted, WantsDb, Names, Replacing
<1>12. Lines(task)'
  BY <1>3, <1>5, <1>11, LinesStay
<1>13. StoreOK' /\ FileLockInv'
  <2>1. FileLockInv'
    BY <1>3, <1>5, <1>9, FileLockKept DEF storeVars, InFile
  <2> QED
    BY <1>1, <1>3, <2>1 DEF StoreOK, storeVars
<1> QED
  BY <1>1, <1>3, <1>5, <1>8, <1>10, <1>12, <1>13, Moved

\* The lock to be asked for next is not yet asked for.
LEMMA NextLock ==
    ASSUME Inv, NEW t \in Task, task[t].pc \in {"lookup", "insert"}, NEW n \in task[t].todo
    PROVE  /\ n \in Name
           /\ n \notin Held(task[t])
           /\ n \notin InLine(task[t])
           /\ n \in Wanted(task[t])
<1>1. task[t] \in TaskState /\ Shape(task[t])
  BY TaskType
<1>2. n \in Wanted(task[t])
  BY <1>1 DEF Shape, InOrder, Allowed, Wanted, WantsDb, Locking
<1> QED
  BY <1>1, <1>2 DEF TaskState, Held, InLine

\* The handler joins a line, the lock being in the table or just made.
LEMMA Asks ==
    ASSUME Inv, NEW t \in Task, task[t].pc \in {"lookup", "insert"},
           NEW n \in task[t].todo, \A m \in task[t].todo : Rank[n] <= Rank[m],
           Enqueue(t, n, LockMode(t)), storeVars' = storeVars,
           task' = [task EXCEPT ![t].pc = "await", ![t].lock = n]
    PROVE  Inv'
<1>1. /\ task[t] \in TaskState /\ task \in [Task -> TaskState] /\ Shape(task[t])
      /\ StoreOK
  BY TaskType
<1>2. /\ n \in Name /\ n \notin Held(task[t]) /\ n \notin InLine(task[t])
      /\ n \in Wanted(task[t])
  BY NextLock
<1> DEFINE after == task'[t]
<1>3. after = [task[t] EXCEPT !.pc = "await", !.lock = n] /\ Others(task, task', t)
  BY <1>1 DEF Others
<1>4. after \in TaskState
  BY <1>1, <1>2, <1>3 DEF TaskState, PC
<1>5. task' \in [Task -> TaskState]
  BY <1>1, <1>3, <1>4
<1>6. /\ after.pc = "await" /\ after.lock = n /\ after.req = task[t].req
      /\ after.status = task[t].status /\ after.todo = task[t].todo
      /\ after.value = task[t].value /\ after.result = task[t].result
  BY <1>1, <1>3 DEF TaskState
<1>7. Names(after) = Names(task[t])
  BY <1>6 DEF Names
<1>8. Shape(after)
  BY <1>1, <1>6, <1>7 DEF Shape, Allowed, InOrder, Locking, Replacing
<1>9. Wanted(after) = Wanted(task[t]) /\ Held(after) = Held(task[t])
  BY <1>6, <1>7 DEF Wanted, WantsDb, Held, Locking, Replacing
<1>10. InLine(after) = InLine(task[t]) \cup {n}
  BY <1>6, <1>9 DEF InLine
<1>11. ModeOf(after) = ModeOf(task[t]) /\ LockMode(t) = ModeOf(after)
  BY <1>6 DEF ModeOf, LockMode, Op
<1>12. Lines(task)' /\ locks' \in LockTable
  BY <1>2, <1>3, <1>9, <1>10, <1>11, LinesGrow
<1>13. FileLockInv'
  BY <1>3, <1>6, FileLockKept DEF storeVars, InFile
<1>14. StoreOK'
  BY <1>1 DEF StoreOK, storeVars
<1> QED
  BY <1>3, <1>5, <1>8, <1>12, <1>13, <1>14, Moved

LEMMA LookupLockKeeps ==
    ASSUME Inv, NEW t \in Task, LookupLock(t)
    PROVE  Inv'
<1>1. /\ task[t] \in TaskState /\ task \in [Task -> TaskState] /\ Shape(task[t])
      /\ StoreOK /\ locks \in LockTable
  BY TaskType
<1>2. PICK n \in task[t].todo :
          /\ \A m \in task[t].todo : Rank[n] <= Rank[m]
          /\ IF LockExists(n)
             THEN /\ Enqueue(t, n, LockMode(t))
                  /\ task' = [task EXCEPT ![t].pc = "await", ![t].lock = n]
             ELSE /\ task' = [task EXCEPT ![t].pc = "insert", ![t].lock = n]
                  /\ UNCHANGED locks
  BY DEF LookupLock, IsNextLock
<1>3. task[t].pc = "lookup" /\ storeVars' = storeVars
  BY DEF LookupLock, At
<1>4. CASE LockExists(n)
  BY <1>2, <1>3, <1>4, Asks
<1>5. CASE ~LockExists(n)
  <2> DEFINE after == task'[t]
  <2>1. task' = [task EXCEPT ![t].pc = "insert", ![t].lock = n] /\ locks' = locks
    BY <1>2, <1>5
  <2>2. after = [task[t] EXCEPT !.pc = "insert", !.lock = n] /\ Others(task, task', t)
    BY <1>1, <2>1 DEF Others
  <2>3. n \in Name
    BY <1>1 DEF TaskState
  <2>4. after \in TaskState
    BY <1>1, <2>2, <2>3 DEF TaskState, PC
  <2>5. task' \in [Task -> TaskState]
    BY <1>1, <2>1, <2>2, <2>4
  <2>6. /\ after.pc = "insert" /\ after.lock = n /\ after.req = task[t].req
        /\ after.status = task[t].status /\ after.todo = task[t].todo
        /\ after.value = task[t].value /\ after.result = task[t].result
    BY <1>1, <2>2 DEF TaskState
  <2>7. Names(after) = Names(task[t])
    BY <2>6 DEF Names
  <2>8. Shape(after)
    BY <1>1, <1>2, <1>3, <2>6, <2>7 DEF Shape, Allowed, InOrder, Locking, Replacing
  <2>9. Held(after) = Held(task[t]) /\ InLine(after) = InLine(task[t])
        /\ ModeOf(after) = ModeOf(task[t])
    BY <1>3, <2>6, <2>7 DEF Wanted, WantsDb, Held, InLine, ModeOf, Locking, Replacing
  <2>10. Lines(task)'
    BY <2>1, <2>2, <2>9, LinesStay
  <2>11. FileLockInv'
    BY <1>3, <2>2, <2>6, FileLockKept DEF storeVars, InFile
  <2>12. StoreOK'
    BY <1>1, <1>3 DEF StoreOK, storeVars
  <2> QED
    BY <1>1, <2>1, <2>2, <2>5, <2>8, <2>10, <2>11, <2>12, Moved
<1> QED
  BY <1>4, <1>5

LEMMA MakeLockKeeps ==
    ASSUME Inv, NEW t \in Task, MakeLock(t)
    PROVE  Inv'
<1> DEFINE n == task[t].lock
<1>1. task[t] \in TaskState /\ task \in [Task -> TaskState] /\ Shape(task[t])
  BY TaskType
<1>2. /\ task[t].pc = "insert" /\ storeVars' = storeVars
      /\ Enqueue(t, n, LockMode(t)) /\ task' = [task EXCEPT ![t].pc = "await"]
  BY DEF MakeLock, At, InsertLock, Goto
<1>3. n \in task[t].todo /\ \A m \in task[t].todo : Rank[n] <= Rank[m]
  BY <1>1, <1>2 DEF Shape, InOrder
<1>4. task' = [task EXCEPT ![t].pc = "await", ![t].lock = n]
  BY <1>1, <1>2 DEF TaskState
<1> QED
  BY <1>2, <1>3, <1>4, Asks

LEMMA AwakenKeeps ==
    ASSUME Inv, NEW t \in Task, Awaken(t)
    PROVE  Inv'
<1> DEFINE n == task[t].lock
           left == task[t].todo \ {n}
           after == task'[t]
<1>1. /\ task[t] \in TaskState /\ task \in [Task -> TaskState] /\ Shape(task[t])
      /\ StoreOK /\ locks \in LockTable
  BY TaskType
<1>2. /\ task[t].pc = "await" /\ storeVars' = storeVars /\ locks' = locks
      /\ Granted(t, n)
      /\ task' = [task EXCEPT ![t].pc = IF left = {} THEN Locked(t) ELSE "lookup",
                              ![t].todo = left]
  BY DEF Awaken, At
<1>3. /\ n \in task[t].todo /\ n \in Name
      /\ \A m \in task[t].todo : m \in Name /\ Rank[n] <= Rank[m]
  BY <1>1, <1>2 DEF Shape, InOrder, TaskState
<1>4. /\ after = [task[t] EXCEPT !.pc = IF left = {} THEN Locked(t) ELSE "lookup",
                                 !.todo = left]
      /\ Others(task, task', t)
  BY <1>1, <1>2 DEF Others
<1>5. Locked(t) \in PC
  BY DEF Locked, PC
<1>6. after \in TaskState
  BY <1>1, <1>4, <1>5 DEF TaskState, PC
<1>7. task' \in [Task -> TaskState]
  BY <1>1, <1>2, <1>4, <1>6
<1>8. /\ after.pc = IF left = {} THEN Locked(t) ELSE "lookup"
      /\ after.req = task[t].req /\ after.lock = n
      /\ after.status = task[t].status /\ after.todo = left
      /\ after.value = task[t].value /\ after.result = task[t].result
  BY <1>1, <1>4 DEF TaskState
<1>9. task[t].req.op \in Ops
  BY <1>2, NamesType DEF Request
<1>10. Names(after) = Names(task[t])
  BY <1>8 DEF Names
<1>11. ASSUME left = {}
       PROVE  Shape(after) /\ after.pc # "await" /\ Held(after) = Held(task[t]) \cup {n}
  <2>1. after.pc = Locked(t) /\ after.todo = {} /\ after.pc \in {"load", "check", "apply", "flock"}
    BY <1>8, <1>11 DEF Locked
  <2>2. task[t].value # Absent <=> after.pc = "flock"
    BY <1>1, <1>2, <2>1 DEF Locked, Op, IsUpdate, Shape, Allowed, UpdateOps, ItemOps, ObjectOps
  <2>3. Allowed(after)
    <3>1. /\ "read" \notin UpdateOps /\ \A op \in SetOps : op \notin UpdateOps
          /\ task[t].req.op \in {"read"} \cup UpdateOps \cup SetOps
      BY <1>9 DEF Ops, SetOps, UpdateOps, ItemOps, ObjectOps
    <3>2. /\ after.pc = "load" => task[t].req.op = "read"
          /\ after.pc = "check" => task[t].req.op \in SetOps
          /\ after.pc \in {"apply", "flock"} => task[t].req.op \in UpdateOps
      BY <2>1, <3>1 DEF Locked, Op, IsUpdate
    <3>3. task[t].value # Absent => task[t].req.op \in UpdateOps
      BY <1>1, <1>2 DEF Shape, Allowed
    <3> QED
      BY <1>8, <2>1, <2>2, <3>2, <3>3 DEF Allowed, Replacing
  <2>4. Shape(after)
    BY <1>1, <1>2, <1>8, <2>1, <2>3 DEF Shape, InOrder, Locking
  <2>5. Held(after) = Held(task[t]) \cup {n}
    <3>1. task[t].todo = {n}
      BY <1>3, <1>11
    <3>2. n \in Wanted(task[t])
      BY <1>1, <1>2, <1>3 DEF Shape, InOrder, Allowed, Wanted, WantsDb, Locking
    <3>3. WantsDb(after) <=> WantsDb(task[t])
      BY <1>1, <1>2, <1>8, <2>1, <2>2 DEF WantsDb, Locking, Replacing, Shape, Allowed
    <3>4. Wanted(after) = Wanted(task[t])
      BY <1>2, <1>10, <2>1, <3>3 DEF Wanted
    <3> QED
      BY <2>1, <3>1, <3>2, <3>4 DEF Held
  <2> QED
    BY <2>1, <2>4, <2>5
<1>12. ASSUME left # {}
       PROVE  Shape(after) /\ after.pc # "await" /\ Held(after) = Held(task[t]) \cup {n}
  <2>1. after.pc = "lookup" /\ after.todo = left
    BY <1>8, <1>12
  <2>2. task[t].value = Absent /\ task[t].todo \subseteq Names(task[t])
    BY <1>1, <1>2, <1>3, <1>12 DEF Shape, InOrder, Locking
  <2>3. \A m \in Names(after) \ left, k \in left : Rank[m] < Rank[k]
    <3> SUFFICES ASSUME NEW m \in Names(after) \ left, NEW k \in left
                 PROVE  Rank[m] < Rank[k]
      OBVIOUS
    <3>1. CASE m = n
      BY <1>3, <3>1, RankAssumption
    <3>2. CASE m # n
      BY <1>1, <1>2, <1>10, <2>2, <3>2 DEF Shape, InOrder, Locking
    <3> QED
      BY <3>1, <3>2
  <2>4. Shape(after)
    BY <1>1, <1>2, <1>8, <1>10, <1>12, <2>1, <2>2, <2>3
       DEF Shape, Allowed, InOrder, Locking, Replacing
  <2>5. Wanted(after) = Wanted(task[t])
    BY <1>2, <1>8, <1>10, <2>1 DEF Wanted, WantsDb, Locking, Replacing
  <2>6. Held(after) = Held(task[t]) \cup {n}
    BY <1>3, <1>10, <2>1, <2>2, <2>5, <1>2 DEF Held, Wanted
  <2> QED
    BY <2>1, <2>4, <2>6
<1>13. Shape(after) /\ after.pc # "await" /\ Held(after) = Held(task[t]) \cup {n}
  BY <1>11, <1>12
<1>14. InLine(after) = InLine(task[t])
  BY <1>2, <1>13 DEF InLine
<1>15. ModeOf(after) = ModeOf(task[t])
  BY <1>8 DEF ModeOf
<1>16. Lines(task)'
  <2> SUFFICES ASSUME NEW m \in Name
               PROVE  LineOK(Line(m), m, task')
    BY <1>2 DEF Lines, Line
  <2>1. Line(m) \in SUBSET Waiter /\ LineOK(Line(m), m, task)
    BY LinesType
  <2>2. CASE m = n
    <3>1. \A w \in Line(m) : w.task = t => IsServed(w, Line(m))
      BY <1>2, <2>2 DEF Granted
    <3> QED
      BY <1>4, <1>14, <1>15, <2>1, <3>1, LineServes
  <2>3. CASE m # n
    BY <1>4, <1>13, <1>14, <1>15, <2>1, <2>3, LineStays
  <2> QED
    BY <2>2, <2>3
<1>17. FileLockInv'
  <2>1. after.pc \notin InFile
    BY <1>8 DEF Locked, InFile
  <2> QED
    BY <1>2, <1>4, <2>1, FileLockKept DEF storeVars, InFile
<1>18. StoreOK'
  BY <1>1, <1>2 DEF StoreOK, storeVars
<1> QED
  BY <1>1, <1>2, <1>4, <1>7, <1>13, <1>16, <1>17, <1>18, Moved

-----------------------------------------------------------------------------
(***************************************************************************)
(* Reads, and writes up to the file.                                       *)
(***************************************************************************)
LEMMA LoadNextKeeps ==
    ASSUME Inv, NEW t \in Task, LoadNext(t)
    PROVE  Inv'
<1>1. /\ task[t] \in TaskState /\ task \in [Task -> TaskState] /\ Shape(task[t])
      /\ StoreOK /\ locks \in LockTable
  BY TaskType
<1>2. task[t].pc = "load" /\ UNCHANGED <<file, durable, flock, resources, crashes>>
  BY DEF LoadNext, At
<1>3. PICK r \in Subjects(t) :
          /\ FillCache(r)
          /\ IF Found(r) = Absent THEN Answer(t, "rejected")
             ELSE task' = [task EXCEPT ![t].result[r] = Found(r)] /\ UNCHANGED locks
  BY DEF LoadNext
<1>4. r \in Resource
  BY <1>2, NamesType
<1>5. StoreOK'
  BY <1>1, <1>2, <1>3, <1>4, FoundType DEF StoreOK
<1>6. CASE Found(r) = Absent
  <2>1. Answer(t, "rejected")
    BY <1>3, <1>6
  <2>2. FileLockInv'
    BY <1>2, <2>1, Answered, FileLockKept DEF InFile
  <2> QED
    BY <1>2, <1>5, <2>1, <2>2, Answered, Moved
<1>7. CASE Found(r) # Absent
  <2> DEFINE after == task'[t]
  <2>1. task' = [task EXCEPT ![t].result[r] = Found(r)] /\ locks' = locks
    BY <1>3, <1>7
  <2>2. task[t].result \in Content /\ Found(r) \in {Absent} \cup Snapshot
    BY <1>1, <1>4, FoundType DEF TaskState
  <2>3. [task[t].result EXCEPT ![r] = Found(r)] \in Content
    BY <1>4, <2>2 DEF Content
  <2>4. after = [task[t] EXCEPT !.result = [task[t].result EXCEPT ![r] = Found(r)]]
        /\ Others(task, task', t)
    BY <1>1, <2>1 DEF Others
  <2>5. after \in TaskState
    BY <1>1, <2>3, <2>4 DEF TaskState
  <2>6. task' \in [Task -> TaskState]
    BY <1>1, <2>1, <2>4, <2>5
  <2>7. /\ after.pc = "load" /\ after.req = task[t].req /\ after.todo = task[t].todo
        /\ after.status = task[t].status /\ after.value = task[t].value
    BY <1>1, <1>2, <2>4 DEF TaskState
  <2>8. Shape(after)
    BY <1>1, <1>2, <2>7 DEF Shape, Allowed, InOrder, Locking, Replacing
  <2>9. Lines(task)' /\ locks' \in LockTable
    BY <1>2, <2>1, <2>4, <2>7, Passed DEF Locking, Replacing
  <2>10. FileLockInv'
    BY <1>2, <2>4, <2>7, FileLockKept DEF InFile
  <2> QED
    BY <1>5, <2>4, <2>6, <2>8, <2>9, <2>10, Moved
<1> QED
  BY <1>6, <1>7

LEMMA AnswerReadKeeps ==
    ASSUME Inv, NEW t \in Task, AnswerRead(t)
    PROVE  Inv'
<1>1. task[t].pc = "load" /\ Answer(t, "ok") /\ storeVars' = storeVars
  BY DEF AnswerRead, At
<1>2. StoreOK'
  BY <1>1, TaskType DEF StoreOK, storeVars
<1>3. FileLockInv'
  BY <1>1, Answered, FileLockKept DEF storeVars, InFile
<1> QED
  BY <1>1, <1>2, <1>3, Answered, Moved

LEMMA ApplyUpdateKeeps ==
    ASSUME Inv, NEW t \in Task, ApplyUpdate(t)
    PROVE  Inv'
<1> DEFINE s == Found(Res(t))
           after == task'[t]
<1>1. /\ task[t] \in TaskState /\ task \in [Task -> TaskState] /\ Shape(task[t])
      /\ StoreOK /\ locks \in LockTable
  BY TaskType
<1>2. /\ task[t].pc = "apply" /\ UNCHANGED <<file, durable, flock, resources, crashes>>
      /\ FillCache(Res(t))
  BY DEF ApplyUpdate, At
<1>3. /\ task[t].req \in Request /\ Res(t) \in Resource /\ DbLock \notin Names(task[t])
  BY <1>2, NamesType
<1>4. StoreOK' /\ s \in {Absent} \cup Snapshot
  BY <1>1, <1>2, <1>3, FoundType DEF StoreOK
<1>5. CASE ~(s # Absent /\ CanUpdate(task[t].req, s))
  <2>1. Answer(t, "rejected")
    BY <1>5 DEF ApplyUpdate
  <2>2. FileLockInv'
    BY <1>2, <2>1, Answered, FileLockKept DEF InFile
  <2> QED
    BY <1>2, <1>4, <2>1, <2>2, Answered, Moved
<1>6. CASE s # Absent /\ CanUpdate(task[t].req, s)
  <2> DEFINE value == Updated(task[t].req, s)
  <2>1. /\ task' = [task EXCEPT ![t].pc = "lookup", ![t].todo = {DbLock}, ![t].value = value]
        /\ locks' = locks
    BY <1>6 DEF ApplyUpdate
  <2>2. task[t].req.op \in UpdateOps /\ task[t].value = Absent
    BY <1>1, <1>2 DEF Shape, Allowed
  <2>3. value \in Snapshot /\ value # Absent
    BY <1>3, <1>4, <1>6, <2>2, UpdatedType, DbAssumption
  <2>4. after = [task[t] EXCEPT !.pc = "lookup", !.todo = {DbLock}, !.value = value]
        /\ Others(task, task', t)
    BY <1>1, <2>1 DEF Others
  <2>5. after \in TaskState
    <3>1. {DbLock} \in SUBSET Name /\ value \in {Absent} \cup Snapshot /\ "lookup" \in PC
      BY <2>3, DbAssumption DEF PC
    <3> HIDE DEF value, after
    <3> QED
      BY <1>1, <2>4, <3>1, Zenon DEF TaskState
  <2>6. task' \in [Task -> TaskState]
    BY <1>1, <2>1, <2>4, <2>5
  <2>7. /\ after.pc = "lookup" /\ after.req = task[t].req /\ after.todo = {DbLock}
        /\ after.status = task[t].status /\ after.value = value
        /\ after.result = task[t].result
    BY <1>1, <2>4 DEF TaskState
  <2>8. Shape(after)
    BY <1>1, <1>2, <2>2, <2>3, <2>7 DEF Shape, Allowed, InOrder, Locking, Replacing
  <2>9. Names(after) = Names(task[t])
    BY <2>7 DEF Names
  <2>10. Wanted(task[t]) = Names(task[t]) /\ task[t].todo = {}
    BY <1>1, <1>2 DEF Wanted, WantsDb, Shape, InOrder, Locking, Replacing
  <2>11. Wanted(after) = Names(task[t]) \cup {DbLock}
    BY <2>2, <2>3, <2>7, <2>9 DEF Wanted, WantsDb, Locking
  <2>12. Held(after) = Held(task[t]) /\ InLine(after) = InLine(task[t])
    BY <1>2, <1>3, <2>7, <2>10, <2>11 DEF Held, InLine
  <2>13. ModeOf(after) = ModeOf(task[t])
    BY <2>7 DEF ModeOf
  <2>14. Lines(task)'
    BY <2>1, <2>4, <2>12, <2>13, LinesStay
  <2>15. FileLockInv'
    BY <1>2, <2>4, <2>7, FileLockKept DEF InFile
  <2> QED
    BY <1>1, <1>4, <2>1, <2>4, <2>6, <2>8, <2>14, <2>15, Moved
<1> QED
  BY <1>5, <1>6

\* A step that only goes on: the request, what it will lock and its value stay.
LEMMA GoesOn ==
    ASSUME Inv, NEW t \in Task, NEW pc \in PC, Goto(t, pc)
    PROVE  /\ task' \in [Task -> TaskState]
           /\ Others(task, task', t)
           /\ task'[t].pc = pc /\ task'[t].req = task[t].req
           /\ task'[t].status = task[t].status /\ task'[t].todo = task[t].todo
           /\ task'[t].value = task[t].value /\ task'[t].result = task[t].result
           /\ task'[t].root = task[t].root /\ task'[t].lock = task[t].lock
<1>1. task[t] \in TaskState /\ task \in [Task -> TaskState]
  BY TaskType
<1>2. task' = [task EXCEPT ![t].pc = pc]
  BY DEF Goto
<1>3. task'[t] = [task[t] EXCEPT !.pc = pc] /\ Others(task, task', t)
  BY <1>1, <1>2 DEF Others
<1>4. task'[t] \in TaskState
  BY <1>1, <1>3 DEF TaskState
<1>5. task' \in [Task -> TaskState]
  BY <1>1, <1>2, <1>3, <1>4
<1> QED
  BY <1>1, <1>3, <1>5 DEF TaskState

LEMMA CheckRegisteredKeeps ==
    ASSUME Inv, NEW t \in Task, CheckRegistered(t)
    PROVE  Inv'
<1>1. /\ task[t] \in TaskState /\ Shape(task[t]) /\ StoreOK
  BY TaskType
<1>2. /\ task[t].pc = "check" /\ storeVars' = storeVars
      /\ Answer(t, "rejected") \/ (Goto(t, "flock") /\ locks' = locks)
  BY DEF CheckRegistered, At
<1>3. StoreOK'
  BY <1>1, <1>2 DEF StoreOK, storeVars
<1>4. CASE Answer(t, "rejected")
  <2>1. FileLockInv'
    BY <1>2, <1>4, Answered, FileLockKept DEF InFile, storeVars
  <2> QED
    BY <1>2, <1>3, <1>4, <2>1, Answered, Moved
<1>5. CASE Goto(t, "flock") /\ locks' = locks
  <2>1. "flock" \in PC
    BY DEF PC
  <2>2. task[t].req.op \in SetOps /\ task[t].req.op \notin UpdateOps /\ task[t].value = Absent
    BY <1>1, <1>2 DEF Shape, Allowed, SetOps, UpdateOps, ItemOps, ObjectOps
  <2>3. Shape(task'[t])
    BY <1>1, <1>2, <1>5, <2>1, <2>2, GoesOn DEF Shape, Allowed, InOrder, Locking, Replacing
  <2>4. Lines(task)' /\ locks' \in LockTable
    BY <1>2, <1>5, <2>1, <2>2, GoesOn, Passed DEF Locking
  <2>5. FileLockInv'
    BY <1>2, <1>5, <2>1, GoesOn, FileLockKept DEF InFile, storeVars
  <2> QED
    BY <1>3, <1>5, <2>1, <2>3, <2>4, <2>5, GoesOn, Moved
<1> QED
  BY <1>2, <1>4, <1>5

LEMMA LockFileKeeps ==
    ASSUME Inv, NEW t \in Task, LockFile(t)
    PROVE  Inv'
<1>1. /\ task[t] \in TaskState /\ Shape(task[t]) /\ StoreOK
  BY TaskType
<1>2. /\ task[t].pc = "flock" /\ flock = NoTask /\ flock' = t /\ Goto(t, "open")
      /\ UNCHANGED <<file, durable, resources, cache, crashes, locks>>
  BY DEF LockFile, At
<1>3. "open" \in PC
  BY DEF PC
<1>4. StoreOK'
  BY <1>1, <1>2 DEF StoreOK
<1>5. Shape(task'[t])
  BY <1>1, <1>2, <1>3, GoesOn DEF Shape, Allowed, InOrder, Locking, Replacing
<1>6. Lines(task)' /\ locks' \in LockTable
  BY <1>2, <1>3, GoesOn, Passed DEF Locking, Replacing
<1>7. FileLockInv'
  <2>1. \A u \in Task \ {t} : task'[u].pc \notin InFile
    BY <1>2, <1>3, GoesOn, DbAssumption DEF Inv, FileLockInv, Others
  <2> QED
    BY <1>2, <1>3, <2>1, GoesOn DEF FileLockInv, InFile
<1> QED
  BY <1>2, <1>3, <1>4, <1>5, <1>6, <1>7, GoesOn, Moved

LEMMA OpenDbFileKeeps ==
    ASSUME Inv, NEW t \in Task, OpenDbFile(t)
    PROVE  Inv'
<1>1. /\ task[t] \in TaskState /\ task \in [Task -> TaskState] /\ Shape(task[t]) /\ StoreOK
  BY TaskType
<1>2. /\ task[t].pc = "open" /\ UNCHANGED <<file, durable, resources, cache, crashes>>
      /\ \/ Answer(t, "rejected") /\ flock' = NoTask
         \/ /\ task' = [task EXCEPT ![t].pc = "rename", ![t].root = file]
            /\ UNCHANGED <<locks, flock>>
  BY DEF OpenDbFile, At
<1>3. StoreOK'
  BY <1>1, <1>2 DEF StoreOK
<1>4. CASE Answer(t, "rejected") /\ flock' = NoTask
  <2>1. FileLockInv'
    BY <1>2, <1>4, Answered, FileLockDropped DEF InFile
  <2> QED
    BY <1>2, <1>3, <1>4, <2>1, Answered, Moved
<1>5. CASE /\ task' = [task EXCEPT ![t].pc = "rename", ![t].root = file]
           /\ UNCHANGED <<locks, flock>>
  <2> DEFINE after == task'[t]
  <2>1. after = [task[t] EXCEPT !.pc = "rename", !.root = file] /\ Others(task, task', t)
    BY <1>1, <1>5 DEF Others
  <2>2. after \in TaskState
    BY <1>1, <2>1 DEF TaskState, PC, StoreOK
  <2>3. task' \in [Task -> TaskState]
    BY <1>1, <1>5, <2>1, <2>2
  <2>4. /\ after.pc = "rename" /\ after.req = task[t].req /\ after.todo = task[t].todo
        /\ after.status = task[t].status /\ after.value = task[t].value
        /\ after.result = task[t].result
    BY <1>1, <2>1 DEF TaskState
  <2>5. Shape(after)
    BY <1>1, <1>2, <2>4 DEF Shape, Allowed, InOrder, Locking, Replacing
  <2>6. Lines(task)' /\ locks' \in LockTable
    BY <1>2, <1>5, <2>1, <2>4, Passed DEF Locking, Replacing
  <2>7. FileLockInv'
    BY <1>2, <1>5, <2>1, <2>4, FileLockKept DEF InFile
  <2> QED
    BY <1>3, <2>1, <2>3, <2>5, <2>6, <2>7, Moved
<1> QED
  BY <1>2, <1>4, <1>5

LEMMA RenameKeeps ==
    ASSUME Inv, NEW t \in Task, Rename(t)
    PROVE  Inv'
<1>1. /\ task[t] \in TaskState /\ Shape(task[t]) /\ StoreOK
  BY TaskType
<1>2. /\ task[t].pc = "rename" /\ Goto(t, "sync")
      /\ file' = [task[t].root EXCEPT ![Res(t)] = NewValue(t)]
      /\ UNCHANGED <<durable, flock, resources, cache, crashes, locks>>
  BY DEF Rename, At
<1>3. "sync" \in PC
  BY DEF PC
<1>4. NewValue(t) \in {Absent} \cup Snapshot
  <2>1. task[t].req.doc \in Snapshot /\ task[t].value \in {Absent} \cup Snapshot
    BY <1>1, <1>2, NamesType DEF Request, TaskState
  <2> QED
    BY <2>1 DEF NewValue
<1>5. file' \in Content
  BY <1>1, <1>2, <1>4, NamesType DEF TaskState, Content
<1>6. StoreOK'
  BY <1>1, <1>2, <1>5 DEF StoreOK
<1>7. Shape(task'[t])
  BY <1>1, <1>2, <1>3, GoesOn DEF Shape, Allowed, InOrder, Locking, Replacing
<1>8. Lines(task)' /\ locks' \in LockTable
  BY <1>2, <1>3, GoesOn, Passed DEF Locking, Replacing
<1>9. FileLockInv'
  BY <1>2, <1>3, GoesOn, FileLockKept DEF InFile
<1> QED
  BY <1>2, <1>3, <1>6, <1>7, <1>8, <1>9, GoesOn, Moved

LEMMA WriteFailsKeeps ==
    ASSUME Inv, NEW t \in Task, WriteFails(t)
    PROVE  Inv'
<1>1. /\ task[t].pc = "rename" /\ Answer(t, "failed") /\ flock' = NoTask
      /\ UNCHANGED <<file, durable, resources, cache, crashes>>
  BY DEF WriteFails, At
<1>2. StoreOK'
  BY <1>1, TaskType DEF StoreOK
<1>3. FileLockInv'
  BY <1>1, Answered, FileLockDropped DEF InFile
<1> QED
  BY <1>1, <1>2, <1>3, Answered, Moved

LEMMA SyncDirKeeps ==
    ASSUME Inv, NEW t \in Task, SyncDir(t)
    PROVE  Inv'
<1> DEFINE after == task'[t]
           names == IF IsUpdate(t) THEN {DbLock} ELSE {}
<1>1. /\ task[t] \in TaskState /\ Shape(task[t]) /\ StoreOK
  BY TaskType
<1>2. /\ task[t].pc = "sync" /\ flock' = NoTask /\ durable' = file
      /\ Goto(t, AfterSync(t)) /\ Release(t, names)
      /\ UNCHANGED <<file, resources, cache, crashes>>
  BY DEF SyncDir, At
<1>3. /\ AfterSync(t) \in {"register", "unregister", "install"}
      /\ AfterSync(t) = "register" => Op(t) = "create_resource"
      /\ AfterSync(t) = "unregister" => Op(t) = "delete_resource"
      /\ AfterSync(t) = "install" => Op(t) \in UpdateOps
  <2>1. Op(t) \in SetOps \/ Op(t) \in UpdateOps
    BY <1>1, <1>2 DEF Shape, Allowed, Replacing, Op
  <2>2. \A op \in SetOps : op \notin UpdateOps
    BY DEF SetOps, UpdateOps, ItemOps, ObjectOps
  <2> QED
    BY <2>1, <2>2 DEF AfterSync, SetOps
<1>4. AfterSync(t) \in PC
  BY <1>3 DEF PC
<1>5. StoreOK'
  BY <1>1, <1>2 DEF StoreOK
<1>6. after.pc = AfterSync(t) /\ after.req = task[t].req /\ after.todo = task[t].todo
      /\ after.value = task[t].value /\ Others(task, task', t)
  BY <1>2, <1>4, GoesOn
<1>7. Shape(after)
  BY <1>1, <1>2, <1>3, <1>4, GoesOn
     DEF Shape, Allowed, InOrder, Locking, Replacing, Op, SetOps
<1>8. Names(after) = Names(task[t])
  BY <1>6 DEF Names
<1>9. task[t].todo = {} /\ after.todo = {}
  BY <1>1, <1>2, <1>6 DEF Shape, InOrder, Locking
<1>10. Held(task[t]) = Names(task[t]) \cup names /\ InLine(task[t]) = Held(task[t])
  BY <1>2, <1>9 DEF Held, InLine, Wanted, WantsDb, Replacing, IsUpdate, Op
<1>11. Held(after) = Names(task[t]) /\ InLine(after) = Held(after)
  BY <1>3, <1>6, <1>8, <1>9 DEF Held, InLine, Wanted, WantsDb, Replacing, Locking
<1>12. ModeOf(after) = ModeOf(task[t])
  BY <1>6 DEF ModeOf
<1>13. Lines(task)' /\ locks' \in LockTable
  <2>1. names \in SUBSET Name /\ DbLock \notin Names(task[t])
    BY <1>2, NamesType, DbAssumption
  <2>2. InLine(after) \cap names = {}
    BY <1>11, <2>1
  <2>3. \A n \in Name \ names : n \in InLine(after) <=> n \in InLine(task[t])
    BY <1>10, <1>11
  <2>4. Held(after) \subseteq Held(task[t])
    BY <1>10, <1>11
  <2> QED
    BY <1>2, <1>6, <1>12, <2>1, <2>2, <2>3, <2>4, LinesDrop
<1>14. FileLockInv'
  BY <1>2, <1>3, <1>6, FileLockDropped DEF InFile
<1> QED
  BY <1>2, <1>4, <1>5, <1>7, <1>13, <1>14, GoesOn, Moved

-----------------------------------------------------------------------------
(***************************************************************************)
(* Writes after the file, and restarts.                                    *)
(***************************************************************************)
LEMMA InstallKeeps ==
    ASSUME Inv, NEW t \in Task, Install(t)
    PROVE  Inv'
<1>1. /\ task[t] \in TaskState /\ Shape(task[t]) /\ StoreOK
  BY TaskType
<1>2. /\ task[t].pc \in {"install", "cache_new", "uncache"} /\ Goto(t, "refresh")
      /\ \/ task[t].pc = "install" /\ cache' = [cache EXCEPT ![Res(t)] = task[t].value]
         \/ task[t].pc = "cache_new" /\ cache' = [cache EXCEPT ![Res(t)] = task[t].req.doc]
         \/ task[t].pc = "uncache" /\ cache' = [cache EXCEPT ![Res(t)] = NoEntry]
      /\ UNCHANGED <<file, durable, flock, resources, crashes, locks>>
  BY DEF Install, At
<1>3. "refresh" \in PC
  BY DEF PC
<1>4. task[t].req.doc \in Snapshot
  BY <1>2, NamesType DEF Request
<1>5. task[t].pc = "install" => task[t].value \in Snapshot
  BY <1>1 DEF Shape, Allowed, Replacing, TaskState
<1>6. cache' \in [Resource -> {NoEntry} \cup Snapshot]
  BY <1>1, <1>2, <1>4, <1>5 DEF StoreOK
<1>7. StoreOK'
  BY <1>1, <1>2, <1>6 DEF StoreOK
<1>8. Shape(task'[t])
  BY <1>1, <1>2, <1>3, GoesOn DEF Shape, Allowed, InOrder, Locking, Replacing, SetOps
<1>9. Lines(task)' /\ locks' \in LockTable
  BY <1>2, <1>3, GoesOn, Passed DEF Locking, Replacing
<1>10. FileLockInv'
  BY <1>2, <1>3, GoesOn, FileLockKept DEF InFile
<1> QED
  BY <1>2, <1>3, <1>7, <1>8, <1>9, <1>10, GoesOn, Moved

LEMMA ChangeSetKeeps ==
    ASSUME Inv, NEW t \in Task, ChangeSet(t)
    PROVE  Inv'
<1>1. /\ task[t] \in TaskState /\ Shape(task[t]) /\ StoreOK
  BY TaskType
<1>2. PICK pc \in {"cache_new", "uncache"} :
          /\ Goto(t, pc)
          /\ \/ task[t].pc = "register" /\ pc = "cache_new" /\ resources' = resources \cup {Res(t)}
             \/ task[t].pc = "unregister" /\ pc = "uncache" /\ resources' = resources \ {Res(t)}
          /\ UNCHANGED <<file, durable, flock, cache, crashes, locks>>
  BY DEF ChangeSet, At
<1>3. pc \in PC
  BY <1>2 DEF PC
<1>4. StoreOK'
  BY <1>1, <1>2, NamesType DEF StoreOK
<1>5. Shape(task'[t])
  BY <1>1, <1>2, <1>3, GoesOn DEF Shape, Allowed, InOrder, Locking, Replacing
<1>6. Lines(task)' /\ locks' \in LockTable
  BY <1>2, <1>3, GoesOn, Passed DEF Locking, Replacing
<1>7. FileLockInv'
  BY <1>2, <1>3, GoesOn, FileLockKept DEF InFile
<1> QED
  BY <1>2, <1>3, <1>4, <1>5, <1>6, <1>7, GoesOn, Moved

LEMMA RefreshSchemaKeeps ==
    ASSUME Inv, NEW t \in Task, RefreshSchema(t)
    PROVE  Inv'
<1>1. PICK status \in {"ok", "failed"} : Answer(t, status)
  BY DEF RefreshSchema
<1>2. task[t].pc = "refresh" /\ storeVars' = storeVars
  BY DEF RefreshSchema, At
<1>3. StoreOK'
  BY <1>2, TaskType DEF StoreOK, storeVars
<1>4. FileLockInv'
  BY <1>1, <1>2, Answered, FileLockKept DEF InFile, storeVars
<1> QED
  BY <1>1, <1>2, <1>3, <1>4, Answered, Moved

\* Nobody is in a line that is empty.
LEMMA EmptyLine ==
    ASSUME NEW n, NEW tasks, \A t \in Task : tasks[t].pc \in {"idle", "done"}
    PROVE  LineOK({}, n, tasks)
<1>1. \A t \in Task : n \notin InLine(tasks[t])
  BY DEF InLine, Held, Wanted
<1> QED
  BY <1>1 DEF LineOK

LEMMA RestartKeeps ==
    ASSUME Inv, Restart
    PROVE  Inv'
<1> DEFINE Lost(w) == [IdleTask EXCEPT !.pc = "done", !.req = w.req, !.status = "lost"]
<1>1. /\ file \in Content /\ durable \in Content /\ crashes \in 0..MaxCrashes
      /\ task \in [Task -> TaskState] /\ \A t \in Task : Shape(task[t])
  BY DEF Inv, TypeOK
<1>2. /\ crashes < MaxCrashes /\ crashes' = crashes + 1
      /\ file' \in {file, durable} /\ durable' = file' /\ flock' = NoTask
      /\ resources' = Keys(file') /\ cache' = [r \in Resource |-> NoEntry]
      /\ locks' = [n \in Name |-> NoLock]
      /\ task' = [t \in Task |-> IF task[t].status # "pending" THEN task[t] ELSE Lost(task[t])]
  BY DEF Restart
<1>3. \A t \in Task :
          /\ Lost(task[t]).pc = "done" /\ Lost(task[t]).req = task[t].req
          /\ Lost(task[t]).status = "lost" /\ Lost(task[t]).todo = {}
  BY DEF IdleTask
<1>4. \A t \in Task : Lost(task[t]) \in TaskState
  <2>1. NoKeys \in Content /\ DbLock \in Name
    BY DbAssumption DEF NoKeys, Content
  <2>2. \A t \in Task : task[t].req \in {NoRequest} \cup Request
    BY <1>1 DEF TaskState
  <2> QED
    BY <2>1, <2>2 DEF IdleTask, TaskState, PC, Status
<1>5. \A t \in Task : task'[t] = IF task[t].status # "pending" THEN task[t] ELSE Lost(task[t])
  BY <1>2
<1>6. TypeOK'
  <2>1. crashes' \in 0..MaxCrashes
    <3>1. MaxCrashes \in Nat
      BY DbAssumption
    <3>2. crashes \in 0..MaxCrashes /\ crashes < MaxCrashes /\ crashes' = crashes + 1
      BY <1>1, <1>2
    <3> QED
      BY <3>1, <3>2
  <2>2. locks' \in LockTable
    BY <1>2 DEF LockTable, NoLock
  <2>3. task' \in [Task -> TaskState]
    BY <1>1, <1>2, <1>4
  <2>4. resources' \subseteq Resource /\ cache' \in [Resource -> {NoEntry} \cup Snapshot]
    BY <1>2 DEF Keys
  <2> QED
    BY <1>1, <1>2, <2>1, <2>2, <2>3, <2>4 DEF TypeOK
<1>7. \A t \in Task : task'[t].pc \in {"idle", "done"}
  BY <1>1, <1>3, <1>5 DEF Shape
<1>8. \A t \in Task : Shape(task'[t])
  <2> SUFFICES ASSUME NEW t \in Task
               PROVE  Shape(task'[t])
    OBVIOUS
  <2>1. CASE task[t].status # "pending"
    BY <1>1, <1>5, <2>1
  <2>2. CASE task[t].status = "pending"
    <3>1. task[t].req \in Request /\ task[t].req.names # <<>>
      BY <1>1, <2>2 DEF Shape
    <3>2. /\ task'[t].pc = "done" /\ task'[t].req = task[t].req
          /\ task'[t].status = "lost" /\ task'[t].todo = {}
      BY <1>3, <1>5, <2>2
    <3> QED
      BY <3>1, <3>2 DEF Shape, InOrder, Locking
  <2> QED
    BY <2>1, <2>2
<1>9. \A n \in Name : LineOK(Line(n)', n, task')
  <2>1. \A n \in Name : Line(n)' = {}
    BY <1>2 DEF Line, NoLock
  <2> QED
    BY <1>7, <2>1, EmptyLine
<1>10. FileLockInv'
  BY <1>2, <1>7, DbAssumption DEF FileLockInv, InFile
<1> QED
  BY <1>6, <1>8, <1>9, <1>10 DEF Inv

-----------------------------------------------------------------------------
(***************************************************************************)
(* The theorems.                                                           *)
(***************************************************************************)
LEMMA InitInv == Init => Inv
<1> SUFFICES ASSUME Init
             PROVE  Inv
  OBVIOUS
<1>1. /\ file = InitialFile /\ durable = InitialFile /\ flock = NoTask
      /\ resources = Keys(InitialFile) /\ cache = [r \in Resource |-> NoEntry]
      /\ task = [t \in Task |-> IdleTask] /\ crashes = 0
      /\ locks = [n \in Name |-> NoLock]
  BY DEF Init
<1>2. IdleTask \in TaskState
  <2>1. NoKeys \in Content /\ DbLock \in Name
    BY DbAssumption DEF NoKeys, Content
  <2> QED
    BY <2>1 DEF IdleTask, TaskState, PC, Status
<1>3. TypeOK
  BY <1>1, <1>2, DbAssumption DEF TypeOK, LockTable, NoLock, Keys
<1>4. \A t \in Task : task[t].pc = "idle" /\ Shape(task[t])
  BY <1>1 DEF IdleTask, Shape, InOrder, Locking
<1>5. \A n \in Name : LineOK(Line(n), n, task)
  <2>1. \A n \in Name : Line(n) = {}
    BY <1>1 DEF Line, NoLock
  <2> QED
    BY <1>4, <2>1, EmptyLine
<1>6. FileLockInv
  BY <1>1, <1>4, DbAssumption DEF FileLockInv, InFile
<1> QED
  BY <1>3, <1>4, <1>5, <1>6 DEF Inv

LEMMA NextInv == Inv /\ [Next]_vars => Inv'
<1> SUFFICES ASSUME Inv, [Next]_vars
             PROVE  Inv'
  OBVIOUS
<1>1. ASSUME NEW t \in Task, Submit(t)
      PROVE  Inv'
  BY <1>1, SubmitKeeps
<1>2. ASSUME NEW t \in Task, Handle(t)
      PROVE  Inv'
  BY <1>2, LookupLockKeeps, MakeLockKeeps, AwakenKeeps, LoadNextKeeps, AnswerReadKeeps,
     ApplyUpdateKeeps, CheckRegisteredKeeps, LockFileKeeps, OpenDbFileKeeps, RenameKeeps,
     WriteFailsKeeps, SyncDirKeeps, InstallKeeps, ChangeSetKeeps, RefreshSchemaKeeps
     DEF Handle, Acquire
<1>3. CASE Restart
  BY <1>3, RestartKeeps
<1>4. CASE UNCHANGED vars
  BY <1>4 DEF vars, Inv, TypeOK, FileLockInv, Line
<1> QED
  BY <1>1, <1>2, <1>3, <1>4 DEF Next, Rest

\* What the proofs rest on holds in every reachable state.
THEOREM Invariance == Spec => []Inv
BY InitInv, NextInv, PTL DEF Spec

\* Every variable keeps its type, the lines of the locks included.
THEOREM TypeCorrect == Spec => []TypeOK
<1>1. Inv => TypeOK
  BY DEF Inv
<1> QED
  BY <1>1, Invariance, PTL

LEMMA InvWritersAlone == Inv => WritersAlone
<1> SUFFICES ASSUME Inv
             PROVE  WritersAlone
  OBVIOUS
<1>1. ASSUME NEW t \in Task, NEW u \in Task, t # u, Beyond(t), Beyond(u), Op(t) # "read",
             Res(t) \in Subjects(u)
      PROVE  FALSE
  <2>1. /\ task[t].pc \notin Locking \cup {"idle", "done"}
        /\ task[u].pc \notin Locking \cup {"idle", "done"}
    BY <1>1 DEF Beyond, Locking
  <2>2. task[t].todo = {} /\ task[u].todo = {}
    BY <2>1 DEF Inv, Shape, InOrder
  <2>3. Res(t) \in Names(task[t]) /\ Res(t) \in Names(task[u]) /\ Res(t) \in Name
    BY <1>1, <2>1, NamesType, DbAssumption
  <2>4. Res(t) \in Held(task[t]) /\ Res(t) \in Held(task[u])
    BY <2>1, <2>2, <2>3 DEF Held, Wanted
  <2>5. ModeOf(task[t]) = "read"
    BY <1>1, <2>3, <2>4, LinesType, Exclusive
  <2> QED
    BY <1>1, <2>5 DEF ModeOf, Op
<1>2. ASSUME NEW t \in Task, NEW u \in Task, task[t].pc \in InFile, task[u].pc \in InFile
      PROVE  t = u
  BY <1>2 DEF Inv, FileLockInv
<1> QED
  BY <1>1, <1>2 DEF WritersAlone, InFile

\* A writer is alone with its resource and with the database file, however
\* many requests there are and whoever made the locks.
THEOREM WritersAreAlone == Spec => []WritersAlone
BY Invariance, InvWritersAlone, PTL

LEMMA InvWaitUpwards == Inv => WaitUpwards
<1> SUFFICES ASSUME Inv, NEW t \in Task, NEW m \in Name, NEW w \in Line(m), w.task = t,
                    NEW n \in task[t].todo, m # n
             PROVE  Below(m, n)
  BY DEF WaitUpwards
<1>1. task[t] \in TaskState /\ Shape(task[t])
  BY TaskType
<1>2. m \in InLine(task[t])
  BY LinesType DEF LineOK
<1>3. task[t].pc \in Locking
  BY <1>1 DEF Shape, InOrder
<1>4. task[t].pc # "idle"
  BY <1>3 DEF Locking
<1>5. DbLock \notin Names(task[t]) /\ n \in Name
  BY <1>1, <1>4, NamesType DEF TaskState
<1>6. m \in Held(task[t]) \/ (task[t].pc = "await" /\ m = task[t].lock)
  BY <1>2 DEF InLine
<1>7. CASE task[t].value = Absent
  <2>1. Wanted(task[t]) = Names(task[t])
    BY <1>3, <1>7 DEF Wanted, WantsDb, Locking, Replacing
  <2>2. task[t].todo \subseteq Names(task[t])
    BY <1>1, <1>3, <1>7 DEF Shape, InOrder
  <2>3. m \in Names(task[t])
    BY <1>1, <1>6, <2>1, <2>2 DEF Held, Shape, InOrder
  <2>4. Rank[m] < Rank[n]
    <3>1. CASE m \in Held(task[t])
      BY <1>1, <1>3, <1>7, <2>1, <3>1 DEF Held, Shape, InOrder
    <3>2. CASE task[t].pc = "await" /\ m = task[t].lock
      BY <1>1, <1>5, <3>2, RankAssumption DEF Shape, InOrder
    <3> QED
      BY <1>6, <3>1, <3>2
  <2> QED
    BY <1>5, <2>3, <2>4 DEF Below
<1>8. CASE task[t].value # Absent
  <2>1. task[t].todo = {DbLock}
    BY <1>1, <1>3, <1>8 DEF Shape, InOrder
  <2> QED
    BY <2>1 DEF Below
<1> QED
  BY <1>7, <1>8

\* Handlers ask for locks in one order, and for the lock of the database file
\* last: no circle of waiting handlers forms, whatever they asked for.
THEOREM NoCircles == Spec => []WaitUpwards
BY Invariance, InvWaitUpwards, PTL
=============================================================================
