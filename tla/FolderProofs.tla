----------------------------- MODULE FolderProofs -----------------------------
(***************************************************************************)
(* No update is lost and no id is given twice, for any number of requests  *)
(* on any folder, as long as nobody but the requests writes there.         *)
(*                                                                         *)
(* A writer computes the new content from a snapshot that it found in the  *)
(* cache, or loaded and offered to the cache, some steps before it writes. *)
(* The invariant says why this is the content of the file: the write lock  *)
(* keeps other writers away; the cache differs from the file only between  *)
(* a rename and the update of the cache, under that lock; and what a read  *)
(* without the lock brings into the cache was either taken from it (the    *)
(* address of a snapshot tells) or comes before every write.               *)
(*                                                                         *)
(* The second half is about what clients see of it: the folder implements  *)
(* the atomic store, creations and deletions of resources included.        *)
(***************************************************************************)
EXTENDS DirbaseProofs, WellFoundedInduction

\* Nobody but the server writes in the folder, its own watcher running or not;
\* no write is made whose success is not reported; and resources neither come
\* nor go.
Alone ==
    /\ Edits = {}
    /\ "sync" \notin Faults
    /\ \A t \in Task : \A req \in Workload[t] : req.op \notin SetOps

\* A handler that carries a snapshot, and one that has not cached it yet.
Carries(w) == w.pc # "idle" /\ NeedsSnapshot(w.req.op, w.pc)
Loading == {"admit", "mark", "insert"}

\* The locks.
GuardOK(w) ==
    /\ w.pc = "idle" => w.guard = "none" /\ w.req = NoRequest
    /\ w.pc # "idle" => w.req.op \notin SetOps
    /\ w.pc \notin {"idle", "acquire", "done"} /\ w.req.op \in UpdateOps
           => w.guard = "write"

\* What a handler carries, and what is cached and in the file.
ArcOK(w, c) ==
    Carries(w) /\ c[w.req.res] # NoEntry /\ c[w.req.res].arc = w.arc
        => c[w.req.res].value = w.value

LoadOK(w, d, c) ==
    /\ w.pc \in Loading /\ c[w.req.res] = NoEntry => w.value = d[w.req.res]
    /\ w.pc \in Loading \cup {"apply"} /\ w.req.op \in UpdateOps => w.value = d[w.req.res]
    /\ Carries(w) /\ w.pc \notin Loading => c[w.req.res] # NoEntry

WriteOK(w, d) ==
    /\ w.pc \in {"readiness", "persist"} =>
           /\ d[w.req.res] \in Snapshot
           /\ CanUpdate(w.req, d[w.req.res])
           /\ w.value = Updated(w.req, d[w.req.res])
           /\ w.made = Position(w.req, d[w.req.res])
    /\ w.pc = "install" => w.value = d[w.req.res]

TaskOK(w, d, c) == GuardOK(w) /\ ArcOK(w, c) /\ LoadOK(w, d, c) /\ WriteOK(w, d)

\* Between the rename and the update of the cache.
Installing(r) == \E t \in Task : task[t].pc = "install" /\ Res(t) = r

CacheOK ==
    \A r \in Resource :
        cache[r] # NoEntry /\ ~Installing(r) => cache[r].value = disk[r]

Exclusive ==
    \A t, u \in Task :
        t # u /\ task[t].guard = "write" /\ task[u].guard # "none" => Res(t) # Res(u)

\* An address stands for one snapshot.
Coherent ==
    \A t, u \in Task :
        /\ Carries(task[t]) /\ Carries(task[u])
        /\ Res(t) = Res(u) /\ task[t].arc = task[u].arc
        => task[t].value = task[u].value

\* A POST whose item is in the file.
Stored(w) ==
    /\ \/ w.pc \in {"install", "infer", "certify"} \cup RefreshPC
       \/ w.pc = "done" /\ w.status = "ok"
    /\ w.req.op = "create_item"

StoredOK ==
    \A t \in Task :
        Stored(task[t]) /\ ~Removed(Res(t), task[t].made)
            => disk[Res(t)] \in Snapshot /\ disk[Res(t)][task[t].made] # NoItem

NoRemovers == \A t \in Task : task[t].req # NoRequest => Op(t) \notin Removers

DistinctOK ==
    \A t, u \in Task :
        t # u /\ Stored(task[t]) /\ Stored(task[u]) /\ Res(t) = Res(u) /\ NoRemovers
            => task[t].made # task[u].made

FolderInv ==
    /\ \A t \in Task : TaskOK(task[t], disk, cache)
    /\ CacheOK
    /\ Exclusive
    /\ Coherent
    /\ StoredOK
    /\ DistinctOK

-----------------------------------------------------------------------------
(***************************************************************************)
(* Documents.                                                              *)
(***************************************************************************)

\* A bounded set of numbers has a largest one.
LEMMA MaxBounds ==
    ASSUME NEW N \in Nat, NEW S \in SUBSET (0..N), S # {}
    PROVE  Max(S) \in S /\ \A y \in S : y <= Max(S)
<1> DEFINE T == {N - x : x \in S}
           R == {p \in Nat \X Nat : p[1] < p[2]}
<1>1. T \subseteq Nat
  <2>1. \A x \in S : N - x \in Nat
    OBVIOUS
  <2> QED
    BY <2>1, Zenon
<1>2. T # {}
  BY Zenon
<1>3. IsWellFoundedOn(R, Nat)
  BY NatLessThanWellFounded, Zenon DEF OpToRel
<1> HIDE DEF R, T
<1>4. PICK m \in T : \A y \in T : <<y, m>> \notin R
  BY <1>1, <1>2, <1>3, WFMin
<1> USE DEF R, T
<1>5. \A y \in T : ~(y < m)
  BY <1>1, <1>4
<1>6. PICK x \in S : m = N - x
  OBVIOUS
<1>7. \A y \in S : y <= x
  BY <1>5, <1>6
<1> QED
  BY <1>7 DEF Max

\* The next id is free.
LEMMA NextIdIsFree ==
    ASSUME NEW s \in Snapshot, NextNumericId(s) \in Id
    PROVE  s[NextNumericId(s)] = NoItem
<1> DEFINE S == Items(s) \cup {0}
<1>1. S \in SUBSET (0..MaxId) /\ S # {} /\ \A y \in S : y \in Nat
  BY MaxIdAssumption DEF Items, Id
<1>2. PICK m \in S : NextNumericId(s) = m + 1 /\ \A y \in S : y <= m
  <2>1. Max(S) \in S /\ \A y \in S : y <= Max(S)
    BY <1>1, MaxBounds, MaxIdAssumption
  <2>2. NextNumericId(s) = Max(S) + 1
    BY DEF NextNumericId
  <2> QED
    BY <2>1, <2>2
<1> HIDE DEF S
<1>3. NextNumericId(s) \notin S
  BY <1>1, <1>2
<1> QED
  BY <1>3 DEF S, Items

\* An update takes no item away but by DELETE.
LEMMA UpdateKeepsItems ==
    ASSUME NEW s \in Snapshot, NEW req \in Request, req.op \in UpdateOps,
           CanUpdate(req, s), NEW i \in Id, s[i] # NoItem,
           req.op = "delete_item" => req.id # i
    PROVE  Updated(req, s)[i] # NoItem
<1>1. CASE Position(req, s) # i
  BY <1>1 DEF Updated, Snapshot
<1>2. CASE Position(req, s) = i
  <2>1. req.op # "delete_item"
    BY <1>2 DEF Position, ObjectOps
  <2>2. s[i] \in SUBSET Column /\ req.item \in SUBSET Column
    BY DEF Snapshot, Item, Request
  <2>3. Updated(req, s)[i] = IF req.op \in {"patch_item", "patch_object"}
                             THEN s[i] \cup req.item ELSE req.item
    BY <1>2, <2>1 DEF Updated, Snapshot
  <2>4. Updated(req, s)[i] \in SUBSET Column
    BY <2>2, <2>3
  <2> QED
    BY <2>4, NoItemAssumption
<1> QED
  BY <1>1, <1>2

\* POST puts an item where there was none.
LEMMA CreateAddsItem ==
    ASSUME NEW s \in Snapshot, NEW req \in Request, req.op = "create_item",
           CanUpdate(req, s)
    PROVE  /\ Position(req, s) \in Id
           /\ s[Position(req, s)] = NoItem
           /\ Updated(req, s)[Position(req, s)] # NoItem
<1>1. Position(req, s) \in Id
  BY DEF CanUpdate
<1>2. Position(req, s) = NextNumericId(s)
  BY DEF Position, ObjectOps
<1>3. Updated(req, s)[Position(req, s)] = req.item
  BY <1>1 DEF Updated, Snapshot
<1>4. req.item \in SUBSET Column
  BY DEF Request, Item
<1> QED
  BY <1>1, <1>2, <1>3, <1>4, NextIdIsFree, NoItemAssumption

-----------------------------------------------------------------------------
(***************************************************************************)
(* What a step of a handler keeps.                                         *)
(***************************************************************************)

OthersStay(t) == \A u \in Task \ {t} : task'[u] = task[u]

\* The snapshot that t carries after a step is the one it carried, a new one,
\* or the cached one.
ArcFits(t) ==
    \/ ~Carries(task'[t])
    \/ Carries(task[t]) /\ task'[t].arc = task[t].arc /\ task'[t].value = task[t].value
    \/ \A u \in Task : task'[t].arc # task[u].arc
    \/ /\ cache[Res(t)] # NoEntry
       /\ task'[t].arc = cache[Res(t)].arc /\ task'[t].value = cache[Res(t)].value

Steps(t) ==
    /\ OthersStay(t)
    /\ task[t].pc # "idle"
    /\ task'[t].req = task[t].req
    /\ task'[t].guard \in {"none", task[t].guard}
    /\ ArcFits(t)

KeepsStored(t) ==
    Stored(task'[t]) => Stored(task[t]) /\ task'[t].made = task[t].made

\* Locks are given back, not taken.
LEMMA ExclusiveKept ==
    ASSUME Exclusive, NEW t \in Task, Steps(t)
    PROVE  Exclusive'
<1> SUFFICES ASSUME NEW v \in Task, NEW u \in Task, v # u,
                    task'[v].guard = "write", task'[u].guard # "none"
             PROVE  task'[v].req.res # task'[u].req.res
  BY DEF Exclusive, Res
<1>1. /\ task'[v].req = task[v].req /\ task'[v].guard \in {"none", task[v].guard}
      /\ task'[u].req = task[u].req /\ task'[u].guard \in {"none", task[u].guard}
  BY DEF Steps, OthersStay
<1> QED
  BY <1>1 DEF Exclusive, Res

\* Handlers that carry a snapshot under one address still carry the same.
LEMMA CoherentKept ==
    ASSUME Coherent, \A u \in Task : ArcOK(task[u], cache), NEW t \in Task, Steps(t)
    PROVE  Coherent'
<1>1. ASSUME NEW u \in Task, u # t, Carries(task'[t]), Carries(task[u]),
             task[t].req.res = task[u].req.res, task'[t].arc = task[u].arc
      PROVE  task'[t].value = task[u].value
  <2>1. CASE Carries(task[t]) /\ task'[t].arc = task[t].arc /\ task'[t].value = task[t].value
    BY <1>1, <2>1 DEF Coherent, Res
  <2>2. CASE /\ cache[Res(t)] # NoEntry
             /\ task'[t].arc = cache[Res(t)].arc /\ task'[t].value = cache[Res(t)].value
    BY <1>1, <2>2 DEF ArcOK, Res
  <2> QED
    BY <1>1, <2>1, <2>2 DEF Steps, ArcFits
<1> SUFFICES ASSUME NEW v \in Task, NEW u \in Task,
                    Carries(task'[v]), Carries(task'[u]),
                    task'[v].req.res = task'[u].req.res, task'[v].arc = task'[u].arc
             PROVE  task'[v].value = task'[u].value
  BY DEF Coherent, Res, Carries, NeedsSnapshot
<1>2. /\ \A w \in Task : w # t => task'[w] = task[w]
      /\ task'[t].req = task[t].req
  BY DEF Steps, OthersStay
<1>3. CASE v # t /\ u # t
  BY <1>2, <1>3 DEF Coherent, Res
<1>4. CASE v = t /\ u # t
  BY <1>1, <1>2, <1>4
<1>5. CASE v # t /\ u = t
  BY <1>1, <1>2, <1>5
<1> QED
  BY <1>3, <1>4, <1>5

\* Requests that may take items away stay such requests.
LEMMA RemovedStays ==
    ASSUME NEW t \in Task, Steps(t)
    PROVE  /\ \A r, i : Removed(r, i)' <=> Removed(r, i)
           /\ NoRemovers' <=> NoRemovers
<1>1. \A u \in Task : task'[u].req = task[u].req
  BY DEF Steps, OthersStay
<1> QED
  BY <1>1 DEF Removed, NoRemovers, Op, Res

\* The items of earlier requests stay in a file that is left alone.
LEMMA StoredKept ==
    ASSUME StoredOK, DistinctOK, NEW t \in Task, Steps(t), KeepsStored(t), UNCHANGED disk
    PROVE  StoredOK' /\ DistinctOK'
<1>1. /\ \A u \in Task : Stored(task'[u]) => Stored(task[u]) /\ task'[u].made = task[u].made
      /\ \A u \in Task : task'[u].req = task[u].req
  BY DEF Steps, OthersStay, KeepsStored
<1>2. /\ \A r, i : Removed(r, i)' <=> Removed(r, i)
      /\ NoRemovers' <=> NoRemovers
  BY RemovedStays
<1>3. StoredOK'
  BY <1>1, <1>2 DEF StoredOK, Res, Stored
<1>4. DistinctOK'
  BY <1>1, <1>2 DEF DistinctOK, Res, Stored
<1> QED
  BY <1>3, <1>4

\* A step that leaves cache and files alone.
LEMMA QuietStep ==
    ASSUME FolderInv, NEW t \in Task, Steps(t), KeepsStored(t),
           task[t].pc # "install", task'[t].pc # "install",
           TaskOK(task'[t], disk, cache), UNCHANGED <<disk, cache>>
    PROVE  FolderInv'
<1>1. \A u \in Task : TaskOK(task'[u], disk', cache')
  BY DEF FolderInv, Steps, OthersStay
<1>2. CacheOK'
  <2> SUFFICES ASSUME NEW r \in Resource, cache[r] # NoEntry, ~Installing(r)'
               PROVE  cache[r].value = disk[r]
    BY DEF CacheOK
  <2>1. ~Installing(r)
    BY DEF Installing, Steps, OthersStay, Res
  <2> QED
    BY <2>1 DEF FolderInv, CacheOK
<1>3. Exclusive' /\ Coherent' /\ StoredOK' /\ DistinctOK'
  BY ExclusiveKept, CoherentKept, StoredKept DEF FolderInv, TaskOK
<1> QED
  BY <1>1, <1>2, <1>3 DEF FolderInv

\* A step that caches what t carries: the content of the file, or what was
\* cached anyway.
LEMMA CachingStep ==
    ASSUME Inv, FolderInv, NEW t \in Task, Steps(t), KeepsStored(t), Carries(task[t]),
           NEW e \in Entry, e.arc = task[t].arc, e.value = task[t].value,
           cache' = [cache EXCEPT ![Res(t)] = e],
           \/ task[t].value = disk[Res(t)]
           \/ /\ task[t].pc # "install"
              /\ cache[Res(t)] # NoEntry /\ cache[Res(t)].value = task[t].value,
           TaskOK(task'[t], disk, cache'), task'[t].pc # "install", UNCHANGED disk
    PROVE  FolderInv'
<1> DEFINE r == Res(t)
<1>1. /\ r \in Resource /\ \A q \in Resource : cache'[q] = IF q = r THEN e ELSE cache[q]
      /\ e # NoEntry
  BY TaskFacts, NoEntryAssumption DEF Inv, TypeOK, Steps
<1>2. ASSUME NEW u \in Task, u # t
      PROVE  TaskOK(task'[u], disk', cache')
  <2>1. task'[u] = task[u] /\ TaskOK(task[u], disk, cache)
    BY <1>2 DEF Steps, OthersStay, FolderInv
  <2>2. CASE task[u].pc = "idle"
    BY <2>1, <2>2 DEF TaskOK, GuardOK, ArcOK, LoadOK, WriteOK, Carries, Loading
  <2>3. CASE task[u].pc # "idle" /\ Res(u) # r
    <3>1. Res(u) \in Resource
      BY <2>3, TaskFacts
    <3>2. cache'[task[u].req.res] = cache[task[u].req.res]
      BY <1>1, <2>3, <3>1 DEF Res
    <3> QED
      BY <2>1, <3>2 DEF TaskOK, ArcOK, LoadOK
  <2>4. CASE task[u].pc # "idle" /\ Res(u) = r
    <3>1. cache'[task[u].req.res] = e
      BY <1>1, <2>4 DEF Res
    <3>2. ArcOK(task[u], cache')
      BY <2>4, <3>1 DEF ArcOK, FolderInv, Coherent
    <3>3. LoadOK(task[u], disk, cache')
      BY <1>1, <2>1, <3>1 DEF TaskOK, LoadOK
    <3> QED
      BY <2>1, <3>2, <3>3 DEF TaskOK
  <2> QED
    BY <2>2, <2>3, <2>4
<1>3. CacheOK'
  <2> SUFFICES ASSUME NEW q \in Resource, cache'[q] # NoEntry, ~Installing(q)'
               PROVE  cache'[q].value = disk[q]
    BY DEF CacheOK
  <2>1. \A u \in Task : u # t => ~(task[u].pc = "install" /\ Res(u) = q)
    BY DEF Installing, Steps, OthersStay, Res
  <2>2. CASE q # r
    <3>1. ~Installing(q)
      BY <2>1, <2>2 DEF Installing
    <3> QED
      BY <1>1, <2>2, <3>1 DEF FolderInv, CacheOK
  <2>3. CASE q = r /\ task[t].value # disk[r]
    <3>1. ~Installing(q)
      BY <2>1, <2>3 DEF Installing
    <3> QED
      BY <1>1, <2>3, <3>1 DEF FolderInv, CacheOK
  <2> QED
    BY <1>1, <2>2, <2>3
<1>4. Exclusive' /\ Coherent' /\ StoredOK' /\ DistinctOK'
  BY ExclusiveKept, CoherentKept, StoredKept DEF FolderInv, TaskOK
<1> QED
  BY <1>2, <1>3, <1>4 DEF FolderInv

-----------------------------------------------------------------------------
(***************************************************************************)
(* The actions.                                                            *)
(***************************************************************************)

\* A request goes on, with what it has.
LEMMA GotoSteps ==
    ASSUME Inv, NEW t \in Task, NEW pc, Goto(t, pc), task[t].pc # "idle",
           Carries([task[t] EXCEPT !.pc = pc]) => Carries(task[t])
    PROVE  /\ Steps(t)
           /\ task'[t] = [task[t] EXCEPT !.pc = pc]
<1>1. task'[t] = [task[t] EXCEPT !.pc = pc] /\ OthersStay(t)
  BY DEF Goto, Inv, TypeOK, OthersStay
<1>2. /\ task'[t].req = task[t].req /\ task'[t].guard = task[t].guard
      /\ task'[t].arc = task[t].arc /\ task'[t].value = task[t].value
  BY <1>1, TaskFacts DEF TaskState
<1> QED
  BY <1>1, <1>2 DEF Steps, ArcFits

\* What a finished request must satisfy.
LEMMA DoneOK ==
    ASSUME NEW w, w.pc = "done", w.req.op \notin SetOps, NEW d, NEW c
    PROVE  TaskOK(w, d, c) /\ ~Carries(w)
  BY DEF TaskOK, GuardOK, ArcOK, LoadOK, WriteOK, Carries, NeedsSnapshot, Loading,
         UpdatePC, RefreshPC

\* A request fails, before it has written or after it has cached.
LEMMA FailStep ==
    ASSUME Inv, FolderInv, NEW t \in Task, task[t].pc \notin {"idle", "install"}, Fail(t),
           UNCHANGED <<disk, cache>>
    PROVE  FolderInv'
<1> DEFINE w == [IdleTask EXCEPT !.pc = "done", !.req = task[t].req, !.status = "error"]
<1>1. task'[t] = w /\ OthersStay(t)
  BY DEF Fail, Inv, TypeOK, OthersStay
<1>2. w.pc = "done" /\ w.req = task[t].req /\ w.guard = "none" /\ w.status = "error"
  BY IdleTaskType DEF IdleTask
<1> HIDE DEF w
<1>3. w.req.op \notin SetOps
  BY <1>2 DEF FolderInv, TaskOK, GuardOK
<1>4. Steps(t)
  BY <1>1, <1>2, <1>3, DoneOK DEF Steps, ArcFits
<1>5. KeepsStored(t)
  BY <1>1, <1>2 DEF KeepsStored, Stored, RefreshPC
<1> QED
  BY <1>1, <1>2, <1>3, <1>4, <1>5, DoneOK, QuietStep

\* A request succeeds.
LEMMA SucceedSteps ==
    ASSUME Inv, FolderInv, NEW t \in Task, task[t].pc \notin {"idle", "done"}, Succeed(t),
           task[t].pc \in {"certify"} \/ Op(t) # "create_item"
    PROVE  /\ Steps(t) /\ KeepsStored(t) /\ task'[t].pc = "done"
           /\ \A d, c : TaskOK(task'[t], d, c)
<1> DEFINE w == [IdleTask EXCEPT !.pc = "done", !.req = task[t].req, !.status = "ok",
                     !.value = task[t].value, !.rev = task[t].rev, !.made = task[t].made]
<1>1. task'[t] = w /\ OthersStay(t)
  BY DEF Succeed, Inv, TypeOK, OthersStay
<1>2. w.pc = "done" /\ w.req = task[t].req /\ w.guard = "none" /\ w.made = task[t].made
  BY IdleTaskType DEF IdleTask
<1> HIDE DEF w
<1>3. w.req.op \notin SetOps
  BY <1>2 DEF FolderInv, TaskOK, GuardOK
<1>4. Steps(t)
  BY <1>1, <1>2, <1>3, DoneOK DEF Steps, ArcFits
<1>5. KeepsStored(t)
  BY <1>1, <1>2 DEF KeepsStored, Stored, RefreshPC, Op
<1> QED
  BY <1>1, <1>2, <1>3, <1>4, <1>5, DoneOK

\* What was loaded is answered, or goes to the update.
LEMMA LoadedSteps ==
    ASSUME Inv, FolderInv, NEW t \in Task, task[t].pc \in {"lookup", "mark"}, NEW entry,
           Loaded(t, entry),
           \/ Carries(task[t]) /\ entry.arc = task[t].arc /\ entry.value = task[t].value
           \/ /\ cache[Res(t)] # NoEntry
              /\ entry.arc = cache[Res(t)].arc /\ entry.value = cache[Res(t)].value
    PROVE  /\ Steps(t) /\ KeepsStored(t) /\ task'[t].pc # "install"
           /\ \A c : /\ c[Res(t)] # NoEntry
                     /\ c[Res(t)].arc = entry.arc => c[Res(t)].value = entry.value
                     /\ Op(t) \in UpdateOps => entry.value = disk[Res(t)]
                     => TaskOK(task'[t], disk, c)
<1>1. task[t] \in TaskState /\ Op(t) \in DataOps /\ OthersStay(t)
  BY TaskFacts DEF TaskInv, Allowed, LoadPC, Op, Loaded, Inv, TypeOK, OthersStay
<1>2. CASE Op(t) \in ReadOps
  <2> DEFINE w == [IdleTask EXCEPT !.pc = "done", !.req = task[t].req, !.status = "ok",
                                   !.value = entry.value, !.rev = entry.rev]
  <2>1. task'[t] = w
    BY <1>2 DEF Loaded, Inv, TypeOK
  <2>2. w.pc = "done" /\ w.req = task[t].req /\ w.guard = "none"
    BY IdleTaskType DEF IdleTask
  <2> HIDE DEF w
  <2>3. w.req.op \notin SetOps /\ w.req.op # "create_item"
    BY <1>2, <2>2 DEF ReadOps, SetOps, Op
  <2>4. Steps(t)
    BY <1>1, <2>1, <2>2, <2>3, DoneOK DEF Steps, ArcFits
  <2>5. KeepsStored(t)
    BY <2>1, <2>3 DEF KeepsStored, Stored
  <2> QED
    BY <2>1, <2>2, <2>3, <2>4, <2>5, DoneOK
<1>3. CASE Op(t) \notin ReadOps
  <2> DEFINE w == [task[t] EXCEPT !.pc = "apply", !.arc = entry.arc,
                                  !.value = entry.value, !.rev = entry.rev]
  <2>1. task'[t] = w
    BY <1>3 DEF Loaded, Inv, TypeOK
  <2>2. /\ w.pc = "apply" /\ w.req = task[t].req /\ w.guard = task[t].guard
        /\ w.arc = entry.arc /\ w.value = entry.value
    BY <1>1 DEF TaskState
  <2> HIDE DEF w
  <2>3. Steps(t)
    BY <1>1, <2>1, <2>2 DEF Steps, ArcFits
  <2>4. KeepsStored(t)
    BY <2>1, <2>2 DEF KeepsStored, Stored, RefreshPC
  <2>5. Op(t) \in UpdateOps
    BY <1>1, <1>3 DEF DataOps
  <2>6. GuardOK(w)
    BY <2>2 DEF FolderInv, TaskOK, GuardOK
  <2>7. ASSUME NEW c, c[Res(t)] # NoEntry,
               c[Res(t)].arc = entry.arc => c[Res(t)].value = entry.value,
               entry.value = disk[Res(t)]
        PROVE  TaskOK(w, disk, c)
    BY <2>2, <2>6, <2>7 DEF TaskOK, ArcOK, LoadOK, WriteOK, Loading, Res
  <2> QED
    BY <2>1, <2>2, <2>3, <2>4, <2>5, <2>7
<1> QED
  BY <1>2, <1>3

\* Steps on which a request only goes on.
PlainSteps ==
    {<<"revision", "lookup">>, <<"lookup", "registered">>, <<"registered", "open">>,
     <<"admit", "mark">>, <<"readiness", "persist">>, <<"infer", "certify">>,
     <<"snapshot", "scan">>, <<"scan", "scan">>, <<"scan", "mark_ready">>,
     <<"mark_ready", "certify">>,
     <<"merge", "truncate">>, <<"truncate", "write_schema">>,
     <<"write_schema", "adopt">>, <<"adopt", "announce">>}

\* They leave what it carries alone.
LEMMA PlainStep ==
    ASSUME Inv, FolderInv, NEW t \in Task, NEW w, task'[t] = w, OthersStay(t),
           w.req = task[t].req, w.guard = task[t].guard, w.arc = task[t].arc,
           w.value = task[t].value, w.made = task[t].made,
           <<task[t].pc, w.pc>> \in PlainSteps, w.pc = "certify" => Op(t) \in UpdateOps,
           UNCHANGED <<disk, cache>>
    PROVE  FolderInv'
<1>1. /\ task[t].pc \notin {"idle", "acquire", "done", "install"}
      /\ w.pc \notin {"idle", "acquire", "done", "install", "insert", "apply", "readiness"}
  BY DEF PlainSteps
<1>2. Carries(w) => Carries(task[t])
  <2>1. NeedsSnapshot(w.req.op, w.pc) => NeedsSnapshot(w.req.op, task[t].pc)
    BY DEF PlainSteps, NeedsSnapshot, UpdatePC, RefreshPC, Op
  <2> QED
    BY <1>1, <2>1 DEF Carries
<1>3. Stored(w) => Stored(task[t])
  BY DEF PlainSteps, Stored, RefreshPC
<1>4. TaskOK(task[t], disk, cache)
  BY DEF FolderInv
<1>5. GuardOK(w)
  BY <1>1, <1>4 DEF TaskOK, GuardOK
<1>6. ArcOK(w, cache)
  BY <1>2, <1>4 DEF TaskOK, ArcOK
<1>7. LoadOK(w, disk, cache)
  <2>1. w.pc \in Loading => task[t].pc \in Loading
    BY DEF PlainSteps, Loading
  <2>2. Carries(w) /\ w.pc \notin Loading => task[t].pc \notin Loading
    BY DEF PlainSteps, Loading
  <2> QED
    BY <1>1, <1>2, <1>4, <2>1, <2>2 DEF TaskOK, LoadOK
<1>8. WriteOK(w, disk)
  <2>1. w.pc \in {"readiness", "persist"} => task[t].pc = "readiness"
    BY DEF PlainSteps
  <2> QED
    BY <1>1, <1>4, <2>1 DEF TaskOK, WriteOK
<1>9. Steps(t) /\ KeepsStored(t)
  BY <1>1, <1>2, <1>3 DEF Steps, ArcFits, KeepsStored
<1> QED
  BY <1>1, <1>5, <1>6, <1>7, <1>8, <1>9, QuietStep DEF TaskOK

\* In particular those that change nothing but the program counter.
LEMMA PlainGoto ==
    ASSUME Inv, FolderInv, NEW t \in Task, NEW pc, Goto(t, pc),
           <<task[t].pc, pc>> \in PlainSteps, pc = "certify" => Op(t) \in UpdateOps,
           UNCHANGED <<disk, cache>>
    PROVE  FolderInv'
<1> DEFINE w == [task[t] EXCEPT !.pc = pc]
<1>1. task'[t] = w /\ OthersStay(t)
  BY DEF Goto, Inv, TypeOK, OthersStay
<1>2. /\ w.pc = pc /\ w.req = task[t].req /\ w.guard = task[t].guard
      /\ w.arc = task[t].arc /\ w.value = task[t].value /\ w.made = task[t].made
  BY TaskFacts DEF TaskState
<1> HIDE DEF w
<1> QED
  BY <1>1, <1>2, PlainStep

\* A request that arrives holds no lock and carries nothing.
LEMMA SubmitStep ==
    ASSUME Alone, Inv, FolderInv, NEW t \in Task, Submit(t)
    PROVE  FolderInv'
<1>1. /\ task[t].pc = "idle" /\ task[t] \in TaskState
      /\ UNCHANGED <<disk, cache>>
  BY TaskFacts DEF Submit, At, storeVars
<1>2. PICK req \in Workload[t] :
          task' = [task EXCEPT ![t].pc = FirstStep(req.op), ![t].req = req]
  BY DEF Submit
<1> DEFINE w == [task[t] EXCEPT !.pc = FirstStep(req.op), !.req = req]
<1>3. task'[t] = w /\ OthersStay(t)
  BY <1>2 DEF Inv, TypeOK, OthersStay
<1>4. w.pc = FirstStep(req.op) /\ w.req = req /\ w.guard = task[t].guard
  BY <1>1 DEF TaskState
<1>5. w.guard = "none" /\ req.op \notin SetOps
  BY <1>1, <1>4 DEF Alone, FolderInv, TaskOK, GuardOK
<1>6. req \in Request /\ req.op \in Ops
  BY WorkloadAssumption DEF Request
<1> HIDE DEF w
<1>7. \/ w.pc = "revision" /\ req.op \in ReadOps
      \/ w.pc = "acquire"
      \/ w.pc = "merge" /\ req.op = "put_schema"
  BY <1>4, <1>5 DEF FirstStep, ReadOps, SetOps
<1>8. ~Carries(w) /\ ~Stored(w)
  BY <1>7 DEF Carries, NeedsSnapshot, Stored, UpdatePC, RefreshPC
<1>9. TaskOK(w, disk, cache)
  BY <1>4, <1>5, <1>7, <1>8
  DEF TaskOK, GuardOK, ArcOK, LoadOK, WriteOK, Loading, ReadOps, UpdateOps, ItemOps, ObjectOps
<1>10. \A u \in Task : TaskOK(task'[u], disk', cache')
  BY <1>1, <1>3, <1>9 DEF FolderInv, OthersStay
<1>11. CacheOK'
  <2>1. \A r : Installing(r)' <=> Installing(r)
    BY <1>1, <1>3, <1>7 DEF Installing, Res, OthersStay
  <2> QED
    BY <1>1, <2>1 DEF FolderInv, CacheOK
<1>12. Exclusive'
  BY <1>3, <1>5 DEF FolderInv, Exclusive, Res, OthersStay
<1>13. Coherent'
  BY <1>3, <1>8 DEF FolderInv, Coherent, Res, OthersStay
<1>14. /\ \A u \in Task : Stored(task'[u]) => u # t /\ Stored(task[u]) /\ task'[u] = task[u]
       /\ \A r, i : Removed(r, i) => Removed(r, i)'
       /\ NoRemovers' => NoRemovers
  <2>1. \A u \in Task : task[u].req # NoRequest => task'[u].req = task[u].req
    <3>1. task[t].req = NoRequest
      BY <1>1 DEF FolderInv, TaskOK, GuardOK
    <3> QED
      BY <1>3, <3>1 DEF OthersStay
  <2>2. \A r, i : Removed(r, i) => Removed(r, i)'
    BY <2>1 DEF Removed, Op, Res
  <2>3. NoRemovers' => NoRemovers
    BY <2>1 DEF NoRemovers, Op
  <2> QED
    BY <1>3, <1>8, <2>2, <2>3 DEF OthersStay
<1>15. StoredOK' /\ DistinctOK'
  BY <1>1, <1>14 DEF FolderInv, StoredOK, DistinctOK, Res
<1> QED
  BY <1>1, <1>10, <1>11, <1>12, <1>13, <1>15 DEF FolderInv

\* A lock is taken when nobody holds it in a way that excludes this one.
LEMMA AcquireStep ==
    ASSUME Inv, FolderInv, NEW t \in Task, Acquire(t)
    PROVE  FolderInv'
<1> DEFINE mode == IF Op(t) = "read" THEN "read" ELSE "write"
           pc == IF Op(t) \in SetOps THEN "registered"
                 ELSE IF Op(t) \in AfterOnly THEN "lookup" ELSE "revision"
           w == [task[t] EXCEPT !.guard = mode, !.pc = pc]
<1>1. /\ task[t].pc = "acquire" /\ LockFree(t, mode) /\ task' = [task EXCEPT ![t] = w]
      /\ UNCHANGED <<disk, cache>>
  BY DEF Acquire, At, storeVars
<1>2. task[t] \in TaskState /\ task'[t] = w /\ OthersStay(t)
  BY <1>1, TaskFacts DEF Inv, TypeOK, OthersStay
<1>3. w.pc = pc /\ w.guard = mode /\ w.req = task[t].req
  BY <1>2 DEF TaskState
<1>4. Op(t) \notin SetOps
  BY <1>1 DEF FolderInv, TaskOK, GuardOK, Op
<1>5. pc \in {"lookup", "revision"} /\ (Op(t) \in UpdateOps => mode = "write")
      /\ mode \in {"read", "write"}
  BY <1>4 DEF UpdateOps, ItemOps, ObjectOps
<1> HIDE DEF w, mode, pc
<1>6. ~Carries(w) /\ ~Stored(w)
  BY <1>3, <1>5 DEF Carries, NeedsSnapshot, Stored, UpdatePC, RefreshPC
<1>7. TaskOK(w, disk, cache)
  BY <1>3, <1>4, <1>5, <1>6 DEF TaskOK, GuardOK, ArcOK, LoadOK, WriteOK, Loading, Op
<1>8. \A u \in Task : TaskOK(task'[u], disk', cache')
  BY <1>1, <1>2, <1>7 DEF FolderInv, OthersStay
<1>9. CacheOK'
  <2>1. \A r : Installing(r)' <=> Installing(r)
    BY <1>1, <1>2, <1>3, <1>5 DEF Installing, Res, OthersStay
  <2> QED
    BY <1>1, <2>1 DEF FolderInv, CacheOK
<1>10. Exclusive'
  <2>1. \A u \in Task : u # t /\ task[u].guard # "none" /\ Res(u) = Res(t)
                            => mode # "write" /\ task[u].guard # "write"
    BY <1>1, <1>5 DEF LockFree
  <2> QED
    BY <1>2, <1>3, <2>1 DEF FolderInv, Exclusive, Res, OthersStay
<1>11. Coherent'
  BY <1>2, <1>6 DEF FolderInv, Coherent, Res, OthersStay
<1>12. /\ \A u \in Task : Stored(task'[u]) => Stored(task[u]) /\ task'[u] = task[u]
       /\ \A u \in Task : task'[u].req = task[u].req
  BY <1>2, <1>3, <1>6 DEF OthersStay
<1>13. /\ \A r, i : Removed(r, i) => Removed(r, i)'
       /\ NoRemovers' => NoRemovers
  BY <1>12 DEF Removed, NoRemovers, Op, Res
<1>14. StoredOK' /\ DistinctOK'
  BY <1>1, <1>12, <1>13 DEF FolderInv, StoredOK, DistinctOK, Res
<1> QED
  BY <1>1, <1>8, <1>9, <1>10, <1>11, <1>14 DEF FolderInv

\* What a writer finds in the cache is in the file: no other is between the
\* two, for it would hold the lock.
LEMMA WriterFinds ==
    ASSUME Inv, FolderInv, NEW t \in Task, Op(t) \in UpdateOps,
           task[t].pc \notin {"idle", "acquire", "done", "install"},
           cache[Res(t)] # NoEntry
    PROVE  cache[Res(t)].value = disk[Res(t)]
<1>1. task[t].guard = "write" /\ Res(t) \in Resource
  BY TaskFacts DEF FolderInv, TaskOK, GuardOK, Op
<1>2. ASSUME NEW u \in Task, task[u].pc = "install", Res(u) = Res(t)
      PROVE  FALSE
  <2>1. Op(u) \in UpdateOps
    BY <1>2, TaskFacts DEF TaskInv, Allowed, UpdatePC, Op
  <2>2. task[u].guard = "write"
    BY <1>2, <2>1 DEF FolderInv, TaskOK, GuardOK, Op
  <2> QED
    BY <1>1, <1>2, <2>2 DEF FolderInv, Exclusive
<1> QED
  BY <1>1, <1>2 DEF FolderInv, CacheOK, Installing

\* LookupHit: the cached snapshot.
LEMMA LookupHitStep ==
    ASSUME Inv, FolderInv, NEW t \in Task, LookupHit(t)
    PROVE  FolderInv'
<1>1. /\ task[t].pc = "lookup" /\ cache[Res(t)] # NoEntry /\ Loaded(t, cache[Res(t)])
      /\ UNCHANGED <<disk, cache>>
  BY DEF LookupHit, At, storeVars
<1>2. Op(t) \in UpdateOps => cache[Res(t)].value = disk[Res(t)]
  BY <1>1, WriterFinds
<1>3. /\ Steps(t) /\ KeepsStored(t) /\ task'[t].pc # "install"
      /\ TaskOK(task'[t], disk, cache)
  BY <1>1, <1>2, LoadedSteps
<1> QED
  BY <1>1, <1>3, QuietStep

\* LookupStale: the same, to be validated.
LEMMA LookupStaleStep ==
    ASSUME Inv, FolderInv, NEW t \in Task, LookupStale(t)
    PROVE  FolderInv'
<1> DEFINE w == [task[t] EXCEPT !.pc = "admit", !.arc = cache[Res(t)].arc,
                                !.value = cache[Res(t)].value]
<1>1. /\ task[t].pc = "lookup" /\ cache[Res(t)] # NoEntry /\ task' = [task EXCEPT ![t] = w]
      /\ UNCHANGED <<disk, cache>>
  BY DEF LookupStale, At, storeVars
<1>2. task[t] \in TaskState /\ task'[t] = w /\ OthersStay(t)
  BY <1>1, TaskFacts DEF Inv, TypeOK, OthersStay
<1>3. /\ w.pc = "admit" /\ w.req = task[t].req /\ w.guard = task[t].guard
      /\ w.arc = cache[Res(t)].arc /\ w.value = cache[Res(t)].value
  BY <1>2 DEF TaskState
<1> HIDE DEF w
<1>4. Op(t) \in UpdateOps => cache[Res(t)].value = disk[Res(t)]
  BY <1>1, WriterFinds
<1>5. GuardOK(w)
  BY <1>1, <1>3 DEF FolderInv, TaskOK, GuardOK
<1>6. TaskOK(w, disk, cache)
  BY <1>1, <1>3, <1>4, <1>5 DEF TaskOK, ArcOK, LoadOK, WriteOK, Loading, Res, Op
<1>7. Steps(t) /\ KeepsStored(t)
  BY <1>1, <1>2, <1>3 DEF Steps, ArcFits, KeepsStored, Stored, RefreshPC
<1> QED
  BY <1>1, <1>2, <1>3, <1>6, <1>7, QuietStep

\* A new address is nobody's.
LEMMA FreshArcIsNew ==
    ASSUME ArcAvailable
    PROVE  /\ \A u \in Task : FreshArc # task[u].arc
           /\ \A r \in Resource : cache[r] # NoEntry => FreshArc # cache[r].arc
<1>1. FreshArc \notin ArcsInUse
  BY DEF ArcAvailable, FreshArc
<1> QED
  BY <1>1 DEF ArcsInUse

\* OpenFile: the content of the file.
LEMMA OpenFileStep ==
    ASSUME Inv, FolderInv, NEW t \in Task, OpenFile(t)
    PROVE  FolderInv'
<1> DEFINE pc == IF Validated(t) THEN "admit" ELSE "insert"
           w == [task[t] EXCEPT !.pc = pc, !.value = disk[Res(t)], !.arc = FreshArc]
<1>1. /\ task[t].pc = "open" /\ task' = [task EXCEPT ![t] = w] /\ ArcAvailable
      /\ UNCHANGED <<disk, cache>>
  BY DEF OpenFile, At, storeVars
<1>2. /\ task[t] \in TaskState /\ Res(t) \in Resource
      /\ task'[t] = w /\ OthersStay(t)
  BY <1>1, TaskFacts DEF Inv, TypeOK, OthersStay
<1>3. /\ w.pc \in {"admit", "insert"} /\ w.req = task[t].req /\ w.guard = task[t].guard
      /\ w.arc = FreshArc /\ w.value = disk[Res(t)]
  BY <1>2 DEF TaskState
<1> HIDE DEF w
<1>4. GuardOK(w)
  BY <1>1, <1>3 DEF FolderInv, TaskOK, GuardOK
<1>5. ArcOK(w, cache)
  BY <1>1, <1>2, <1>3, FreshArcIsNew DEF ArcOK, Res
<1>6. TaskOK(w, disk, cache)
  BY <1>3, <1>4, <1>5 DEF TaskOK, LoadOK, WriteOK, Loading, Res
<1>7. ArcFits(t)
  BY <1>1, <1>2, <1>3, FreshArcIsNew DEF ArcFits
<1>8. Steps(t) /\ KeepsStored(t)
  BY <1>1, <1>2, <1>3, <1>7 DEF Steps, KeepsStored, Stored, RefreshPC
<1> QED
  BY <1>1, <1>2, <1>3, <1>6, <1>8, QuietStep

\* Mark: what was validated is cached, unless something else is.
LEMMA MarkStep ==
    ASSUME Inv, FolderInv, NEW t \in Task, Mark(t)
    PROVE  FolderInv'
<1>1. /\ task[t].pc = "mark" /\ Loaded(t, task[t]) /\ UNCHANGED disk
      /\ MarkValidated(Res(t), task[t].arc, task[t].value, task[t].rev)
  BY DEF Mark, At
<1>2. /\ Carries(task[t]) /\ Res(t) \in Resource
      /\ task[t].arc \in Arc /\ task[t].value \in Snapshot
      /\ task[t].rev \in {Unvalidated} \cup Nat
  BY <1>1, TaskFacts DEF Carries, NeedsSnapshot, TaskInv, HasSnapshot, TaskState
<1>3. TaskOK(task[t], disk, cache)
  BY DEF FolderInv
<1>4. /\ Op(t) \in UpdateOps => task[t].value = disk[Res(t)]
      /\ cache[Res(t)] = NoEntry => task[t].value = disk[Res(t)]
      /\ cache[Res(t)] # NoEntry /\ cache[Res(t)].arc = task[t].arc
             => cache[Res(t)].value = task[t].value
  BY <1>1, <1>2, <1>3 DEF TaskOK, LoadOK, ArcOK, Loading, Res, Op
<1>5. /\ Steps(t) /\ KeepsStored(t) /\ task'[t].pc # "install"
      /\ \A c : /\ c[Res(t)] # NoEntry
                /\ c[Res(t)].arc = task[t].arc => c[Res(t)].value = task[t].value
                => TaskOK(task'[t], disk, c)
  <2>1. /\ Steps(t) /\ KeepsStored(t) /\ task'[t].pc # "install"
        /\ \A c : /\ c[Res(t)] # NoEntry
                  /\ c[Res(t)].arc = task[t].arc => c[Res(t)].value = task[t].value
                  /\ Op(t) \in UpdateOps => task[t].value = disk[Res(t)]
                  => TaskOK(task'[t], disk, c)
    BY <1>1, <1>2, LoadedSteps
  <2> QED
    BY <1>4, <2>1
<1>6. CASE cache[Res(t)] # NoEntry /\ cache[Res(t)].arc # task[t].arc
  <2>1. UNCHANGED cache
    BY <1>1, <1>6 DEF MarkValidated
  <2>2. TaskOK(task'[t], disk, cache)
    BY <1>5, <1>6
  <2> QED
    BY <1>1, <1>5, <2>1, <2>2, QuietStep
<1>7. CASE cache[Res(t)] = NoEntry \/ cache[Res(t)].arc = task[t].arc
  <2> DEFINE e == [arc |-> task[t].arc, value |-> task[t].value, rev |-> task[t].rev]
  <2>1. cache' = [cache EXCEPT ![Res(t)] = e]
    BY <1>1, <1>7 DEF MarkValidated
  <2>2. e \in Entry /\ e.arc = task[t].arc /\ e.value = task[t].value
    BY <1>2 DEF Entry
  <2>3. cache'[Res(t)] = e /\ e # NoEntry
    BY <1>2, <2>1, <2>2, NoEntryAssumption DEF Inv, TypeOK
  <2> HIDE DEF e
  <2>4. TaskOK(task'[t], disk, cache')
    BY <1>5, <2>2, <2>3
  <2> QED
    BY <1>1, <1>2, <1>4, <1>5, <1>7, <2>1, <2>2, <2>4, CachingStep
<1> QED
  BY <1>6, <1>7

\* InsertIfAbsent: what was loaded is cached, unless something else is.
LEMMA InsertIfAbsentStep ==
    ASSUME Inv, FolderInv, NEW t \in Task, InsertIfAbsent(t)
    PROVE  FolderInv'
<1> DEFINE w == [task[t] EXCEPT !.pc = "apply"]
           e == [arc |-> task[t].arc, value |-> task[t].value, rev |-> Unvalidated]
<1>1. /\ task[t].pc = "insert" /\ Goto(t, "apply") /\ UNCHANGED disk
      /\ cache' = IF cache[Res(t)] # NoEntry THEN cache
                  ELSE [cache EXCEPT ![Res(t)] = e]
  BY DEF InsertIfAbsent, At
<1>2. /\ Carries(task[t]) /\ Res(t) \in Resource /\ Op(t) \in UpdateOps
      /\ task[t].arc \in Arc /\ task[t].value \in Snapshot
  BY <1>1, TaskFacts
  DEF Carries, NeedsSnapshot, TaskInv, Allowed, HasSnapshot, UpdatePC, Op
<1>3. e \in Entry /\ e.arc = task[t].arc /\ e.value = task[t].value /\ e # NoEntry
  BY <1>2, NoEntryAssumption DEF Entry
<1>4. Steps(t) /\ task'[t] = w
  BY <1>1, <1>2, GotoSteps
<1>5. /\ w.pc = "apply" /\ w.req = task[t].req /\ w.guard = task[t].guard
      /\ w.arc = task[t].arc /\ w.value = task[t].value
  BY TaskFacts DEF TaskState
<1> HIDE DEF w, e
<1>6. KeepsStored(t)
  BY <1>4, <1>5 DEF KeepsStored, Stored, RefreshPC
<1>7. TaskOK(task[t], disk, cache)
  BY DEF FolderInv
<1>8. GuardOK(w) /\ WriteOK(w, disk) /\ task[t].value = disk[Res(t)]
  BY <1>1, <1>2, <1>5, <1>7 DEF TaskOK, GuardOK, LoadOK, WriteOK, Loading, Res, Op
<1>9. ASSUME NEW c, c[Res(t)] # NoEntry, ArcOK(task[t], c)
      PROVE  TaskOK(w, disk, c)
  BY <1>2, <1>5, <1>8, <1>9 DEF TaskOK, ArcOK, LoadOK, Loading, Res
<1>10. CASE cache[Res(t)] # NoEntry
  <2>1. TaskOK(w, disk, cache)
    BY <1>7, <1>9, <1>10 DEF TaskOK
  <2> QED
    BY <1>1, <1>4, <1>5, <1>6, <1>10, <2>1, QuietStep
<1>11. CASE cache[Res(t)] = NoEntry
  <2>1. cache' = [cache EXCEPT ![Res(t)] = e]
    BY <1>1, <1>11
  <2>2. cache'[Res(t)] = e
    BY <1>2, <2>1 DEF Inv, TypeOK
  <2>3. TaskOK(w, disk, cache')
    BY <1>3, <1>9, <2>2 DEF ArcOK, Res
  <2> QED
    BY <1>1, <1>2, <1>3, <1>4, <1>5, <1>6, <1>8, <2>1, <2>3, CachingStep
<1> QED
  BY <1>10, <1>11

\* Apply: the update of the content of the file, which is what t carries.
LEMMA ApplyStep ==
    ASSUME Inv, FolderInv, NEW t \in Task, Apply(t)
    PROVE  FolderInv'
<1> DEFINE s == task[t].value
           new == Updated(task[t].req, s)
           made == Position(task[t].req, s)
           w == [task[t] EXCEPT !.pc = "readiness", !.value = new, !.arc = FreshArc,
                                !.rev = schema.revisions[Res(t)], !.made = made]
<1>1. task[t].pc = "apply" /\ UNCHANGED <<disk, cache>>
  BY DEF Apply, At, storeVars
<1>2. /\ task[t] \in TaskState /\ Op(t) \in UpdateOps /\ s \in Snapshot /\ Carries(task[t])
      /\ Res(t) \in Resource
  BY <1>1, TaskFacts DEF TaskInv, Allowed, HasSnapshot, NeedsSnapshot, Carries, UpdatePC, Op
<1>3. CASE Fail(t)
  BY <1>1, <1>3, FailStep
<1>4. CASE ~Fail(t)
  <2>1. /\ CanUpdate(task[t].req, s) /\ ArcAvailable
        /\ task' = [task EXCEPT ![t] = w]
    BY <1>4 DEF Apply
  <2>2. task'[t] = w /\ OthersStay(t)
    BY <2>1 DEF Inv, TypeOK, OthersStay
  <2>3. /\ w.pc = "readiness" /\ w.req = task[t].req /\ w.guard = task[t].guard
        /\ w.arc = FreshArc /\ w.value = new /\ w.made = made
    BY <1>2 DEF TaskState
  <2> HIDE DEF w
  <2>4. TaskOK(task[t], disk, cache)
    BY DEF FolderInv
  <2>5. s = disk[Res(t)] /\ cache[Res(t)] # NoEntry
    BY <1>1, <1>2, <2>4 DEF TaskOK, LoadOK, Loading, Op, Res
  <2>6. GuardOK(w)
    BY <1>1, <2>3, <2>4 DEF TaskOK, GuardOK
  <2>7. ArcOK(w, cache)
    BY <1>2, <2>1, <2>3, FreshArcIsNew DEF ArcOK, Res
  <2>8. LoadOK(w, disk, cache)
    BY <2>3, <2>5 DEF LoadOK, Loading, Res
  <2>9. WriteOK(w, disk)
    BY <1>2, <2>1, <2>3, <2>5 DEF WriteOK, Res
  <2>10. ArcFits(t)
    BY <2>1, <2>2, <2>3, FreshArcIsNew DEF ArcFits
  <2>11. Steps(t) /\ KeepsStored(t)
    BY <1>1, <2>2, <2>3, <2>10 DEF Steps, KeepsStored, Stored, RefreshPC
  <2> QED
    BY <1>1, <2>2, <2>3, <2>6, <2>7, <2>8, <2>9, <2>11, QuietStep DEF TaskOK
<1> QED
  BY <1>3, <1>4

\* Persist: the file changes, under the lock; the cache has yet to follow.
LEMMA PersistStep ==
    ASSUME Inv, FolderInv, NEW t \in Task, Persist(t)
    PROVE  FolderInv'
<1> DEFINE r == Res(t)
           req == task[t].req
           s == disk[r]
           w == [task[t] EXCEPT !.pc = "install"]
<1>1. /\ task[t].pc = "persist" /\ Goto(t, "install") /\ UNCHANGED cache
      /\ disk' = [disk EXCEPT ![r] = task[t].value]
  BY DEF Persist, At, WriteDisk
<1>3. /\ Op(t) \in UpdateOps /\ Carries(task[t]) /\ r \in Resource /\ req \in Request
      /\ task[t].value \in Snapshot
  BY <1>1, TaskFacts
  DEF TaskInv, Allowed, HasSnapshot, NeedsSnapshot, Carries, UpdatePC, Op
<1>4. Steps(t) /\ task'[t] = w
  BY <1>1, <1>3, GotoSteps
<1>5. /\ w.pc = "install" /\ w.req = req /\ w.guard = task[t].guard
      /\ w.arc = task[t].arc /\ w.value = task[t].value /\ w.made = task[t].made
  BY TaskFacts DEF TaskState
<1> HIDE DEF w
<1>6. TaskOK(task[t], disk, cache)
  BY DEF FolderInv
<1>7. /\ s \in Snapshot /\ CanUpdate(req, s) /\ task[t].value = Updated(req, s)
      /\ task[t].made = Position(req, s) /\ cache[r] # NoEntry /\ task[t].guard = "write"
  BY <1>1, <1>3, <1>6 DEF TaskOK, WriteOK, LoadOK, GuardOK, Loading, Res, Op
<1>8. \A q \in Resource : disk'[q] = IF q = r THEN task[t].value ELSE disk[q]
  BY <1>1, <1>3 DEF Inv, TypeOK
<1>9. TaskOK(w, disk', cache')
  <2>1. GuardOK(w)
    BY <1>1, <1>5, <1>6 DEF TaskOK, GuardOK
  <2>2. ArcOK(w, cache')
    BY <1>1, <1>3, <1>5, <1>6 DEF TaskOK, ArcOK
  <2>3. LoadOK(w, disk', cache')
    BY <1>1, <1>5, <1>7 DEF LoadOK, Loading, Res
  <2>4. WriteOK(w, disk')
    BY <1>3, <1>5, <1>8 DEF WriteOK, Res
  <2> QED
    BY <2>1, <2>2, <2>3, <2>4 DEF TaskOK
<1>10. ASSUME NEW u \in Task, u # t
       PROVE  TaskOK(task'[u], disk', cache')
  <2>1. task'[u] = task[u] /\ TaskOK(task[u], disk, cache)
    BY <1>4, <1>10 DEF Steps, OthersStay, FolderInv
  <2>2. CASE task[u].pc = "idle"
    BY <2>1, <2>2 DEF TaskOK, GuardOK, ArcOK, LoadOK, WriteOK, Carries, Loading
  <2>3. CASE task[u].pc # "idle" /\ Res(u) # r
    <3>1. Res(u) \in Resource
      BY <2>3, TaskFacts
    <3>2. disk'[task[u].req.res] = disk[task[u].req.res]
      BY <1>8, <2>3, <3>1 DEF Res
    <3> QED
      BY <1>1, <2>1, <3>2 DEF TaskOK, LoadOK, WriteOK
  <2>4. CASE task[u].pc # "idle" /\ Res(u) = r
    <3>1. task[u].guard = "none"
      BY <1>7, <1>10, <2>4 DEF FolderInv, Exclusive
    <3>2. task[u].pc \notin {"acquire", "done"} => Op(u) \notin UpdateOps
      BY <2>1, <2>4, <3>1 DEF TaskOK, GuardOK, Op
    <3>3. task[u].pc \notin UpdatePC
      BY <3>2, TaskFacts DEF TaskInv, Allowed, UpdatePC, Op
    <3>4. WriteOK(task[u], disk')
      BY <3>3 DEF WriteOK, UpdatePC
    <3>5. LoadOK(task[u], disk', cache')
      BY <1>1, <1>7, <2>1, <2>4, <3>2 DEF TaskOK, LoadOK, Loading, Op, Res
    <3> QED
      BY <1>1, <2>1, <3>4, <3>5 DEF TaskOK
  <2> QED
    BY <2>2, <2>3, <2>4
<1>11. \A u \in Task : TaskOK(task'[u], disk', cache')
  BY <1>4, <1>9, <1>10
<1>12. CacheOK'
  <2> SUFFICES ASSUME NEW q \in Resource, cache[q] # NoEntry, ~Installing(q)'
               PROVE  cache[q].value = disk'[q]
    BY <1>1 DEF CacheOK
  <2>1. q # r
    BY <1>4, <1>5 DEF Installing, Res
  <2>2. ~Installing(q)
    BY <1>1, <1>4 DEF Installing, Steps, OthersStay, Res
  <2> QED
    BY <1>8, <2>1, <2>2 DEF FolderInv, CacheOK
<1>13. Exclusive' /\ Coherent'
  BY <1>4, ExclusiveKept, CoherentKept DEF FolderInv, TaskOK
<1>14. /\ \A u \in Task : u # t => task'[u] = task[u]
       /\ \A u \in Task : task'[u].req = task[u].req
       /\ \A q, i : Removed(q, i)' <=> Removed(q, i)
       /\ NoRemovers' <=> NoRemovers
  BY <1>4, RemovedStays DEF Steps, OthersStay
<1>15. ASSUME NEW u \in Task, u # t, Stored(task[u]), Res(u) = r, ~Removed(r, task[u].made)
       PROVE  s[task[u].made] # NoItem /\ task[t].value[task[u].made] # NoItem
  <2>1. s[task[u].made] # NoItem
    BY <1>15 DEF FolderInv, StoredOK
  <2>2. task[u].made \in Id
    BY TaskFacts DEF TaskState
  <2>3. req.op = "delete_item" => req.id # task[u].made
    <3>1. req # NoRequest
      BY <1>3, NoRequestAssumption
    <3> QED
      BY <1>15, <3>1 DEF Removed, Removers, Op, Res
  <2> QED
    BY <1>3, <1>7, <2>1, <2>2, <2>3, UpdateKeepsItems DEF Op
<1>16. Stored(w) => /\ req.op = "create_item" /\ w.made \in Id
                    /\ s[w.made] = NoItem /\ task[t].value[w.made] # NoItem
  BY <1>3, <1>5, <1>7, CreateAddsItem DEF Stored
<1>17. StoredOK'
  <2> SUFFICES ASSUME NEW u \in Task, Stored(task'[u]), ~Removed(Res(u), task'[u].made)
               PROVE  /\ disk'[Res(u)] \in Snapshot
                      /\ disk'[Res(u)][task'[u].made] # NoItem
    BY <1>14 DEF StoredOK, Res
  <2>1. CASE u = t
    BY <1>3, <1>4, <1>8, <1>16, <2>1
  <2>2. CASE u # t /\ Res(u) = r
    BY <1>3, <1>8, <1>14, <1>15, <2>2
  <2>3. CASE u # t /\ Res(u) # r
    <3>1. Res(u) \in Resource
      BY <1>14, <2>3, TaskFacts DEF Stored, RefreshPC
    <3> QED
      BY <1>8, <1>14, <2>3, <3>1 DEF FolderInv, StoredOK
  <2> QED
    BY <2>1, <2>2, <2>3
<1>18. DistinctOK'
  <2>1. ASSUME NEW u \in Task, u # t, Stored(w), Stored(task[u]), Res(u) = r, NoRemovers
        PROVE  w.made # task[u].made
    <3>1. \A i : ~Removed(r, i)
      BY <2>1 DEF Removed, NoRemovers
    <3> QED
      BY <1>15, <1>16, <2>1, <3>1
  <2> SUFFICES ASSUME NEW v \in Task, NEW u \in Task, v # u, Stored(task'[v]),
                      Stored(task'[u]), Res(v) = Res(u), NoRemovers
               PROVE  task'[v].made # task'[u].made
    BY <1>14 DEF DistinctOK, Res
  <2>2. CASE v # t /\ u # t
    BY <1>14, <2>2 DEF FolderInv, DistinctOK
  <2>3. CASE v = t \/ u = t
    BY <1>4, <1>14, <2>1, <2>3
  <2> QED
    BY <2>2, <2>3
<1> QED
  BY <1>4, <1>11, <1>12, <1>13, <1>17, <1>18 DEF FolderInv, Steps

\* InstallInCache: the cache follows the file.
LEMMA InstallInCacheStep ==
    ASSUME Inv, FolderInv, NEW t \in Task, InstallInCache(t)
    PROVE  FolderInv'
<1> DEFINE pc == IF task[t].local THEN "infer" ELSE "snapshot"
           w == [task[t] EXCEPT !.pc = pc]
           e == [arc |-> task[t].arc, value |-> task[t].value, rev |-> Unvalidated]
<1>1. /\ task[t].pc = "install" /\ Goto(t, pc) /\ UNCHANGED disk
      /\ cache' = [cache EXCEPT ![Res(t)] = e]
  BY DEF InstallInCache, At, UpdateCached
<1>2. /\ Carries(task[t]) /\ Res(t) \in Resource /\ Op(t) \in UpdateOps
      /\ task[t].arc \in Arc /\ task[t].value \in Snapshot
  BY <1>1, TaskFacts
  DEF Carries, NeedsSnapshot, TaskInv, Allowed, HasSnapshot, UpdatePC, Op
<1>3. e \in Entry /\ e.arc = task[t].arc /\ e.value = task[t].value /\ e # NoEntry
  BY <1>2, NoEntryAssumption DEF Entry
<1>4. pc \in {"infer", "snapshot"}
  OBVIOUS
<1> HIDE DEF pc, e
<1>5. Steps(t) /\ task'[t] = w
  BY <1>1, <1>2, GotoSteps
<1>6. /\ w.pc = pc /\ w.req = task[t].req /\ w.guard = task[t].guard
      /\ w.arc = task[t].arc /\ w.value = task[t].value /\ w.made = task[t].made
  BY TaskFacts DEF TaskState
<1> HIDE DEF w
<1>7. KeepsStored(t)
  BY <1>1, <1>5, <1>6 DEF KeepsStored, Stored
<1>8. TaskOK(task[t], disk, cache)
  BY DEF FolderInv
<1>9. cache'[Res(t)] = e
  BY <1>1, <1>2 DEF Inv, TypeOK
<1>10. TaskOK(w, disk, cache')
  <2>1. GuardOK(w)
    BY <1>1, <1>4, <1>6, <1>8 DEF TaskOK, GuardOK
  <2>2. ArcOK(w, cache') /\ LoadOK(w, disk, cache') /\ WriteOK(w, disk)
    BY <1>3, <1>4, <1>6, <1>9 DEF ArcOK, LoadOK, WriteOK, Loading, Res
  <2> QED
    BY <2>1, <2>2 DEF TaskOK
<1>11. task[t].value = disk[Res(t)]
  BY <1>1, <1>8 DEF TaskOK, WriteOK, Res
<1> QED
  BY <1>1, <1>2, <1>3, <1>4, <1>5, <1>6, <1>7, <1>10, <1>11, CachingStep

\* Certify: what is cached is certified, if it is still there.
LEMMA CertifyStep ==
    ASSUME Inv, FolderInv, NEW t \in Task, Certify(t)
    PROVE  FolderInv'
<1>1. /\ task[t].pc = "certify" /\ Succeed(t) /\ UNCHANGED disk
      /\ MarkValidated(Res(t), task[t].arc, task[t].value, task[t].rev)
  BY DEF Certify, At
<1>2. /\ Carries(task[t]) /\ Res(t) \in Resource
      /\ task[t].arc \in Arc /\ task[t].value \in Snapshot
      /\ task[t].rev \in {Unvalidated} \cup Nat
  BY <1>1, TaskFacts DEF Carries, NeedsSnapshot, TaskInv, HasSnapshot, UpdatePC, TaskState
<1>3. /\ Steps(t) /\ KeepsStored(t) /\ task'[t].pc = "done"
      /\ \A d, c : TaskOK(task'[t], d, c)
  BY <1>1, SucceedSteps
<1>4. cache[Res(t)] # NoEntry
  BY <1>1, <1>2 DEF FolderInv, TaskOK, LoadOK, Loading, Res
<1>5. CASE cache[Res(t)].arc # task[t].arc
  <2>1. UNCHANGED cache
    BY <1>1, <1>4, <1>5 DEF MarkValidated
  <2> QED
    BY <1>1, <1>3, <2>1, QuietStep
<1>6. CASE cache[Res(t)].arc = task[t].arc
  <2> DEFINE e == [arc |-> task[t].arc, value |-> task[t].value, rev |-> task[t].rev]
  <2>1. cache' = [cache EXCEPT ![Res(t)] = e]
    BY <1>1, <1>6 DEF MarkValidated
  <2>2. e \in Entry /\ e.arc = task[t].arc /\ e.value = task[t].value
    BY <1>2 DEF Entry
  <2> HIDE DEF e
  <2>3. cache[Res(t)].value = task[t].value
    BY <1>2, <1>4, <1>6 DEF FolderInv, TaskOK, ArcOK, Res
  <2> QED
    BY <1>1, <1>2, <1>3, <1>4, <2>1, <2>2, <2>3, CachingStep
<1> QED
  BY <1>5, <1>6

\* The other steps of a load.
LEMMA LoadStep ==
    ASSUME Inv, FolderInv, NEW t \in Task,
           \/ ReadRevision(t) \/ LookupMiss(t) \/ CheckRegistered(t)
           \/ OpenFails(t) \/ Admit(t)
    PROVE  FolderInv'
<1>1. CASE ReadRevision(t)
  <2> DEFINE w == [task[t] EXCEPT !.pc = "lookup", !.rev = schema.revisions[Res(t)]]
  <2>1. /\ task[t].pc = "revision" /\ task' = [task EXCEPT ![t] = w]
        /\ UNCHANGED <<disk, cache>>
    BY <1>1 DEF ReadRevision, At, storeVars
  <2>2. task'[t] = w /\ OthersStay(t)
    BY <2>1 DEF Inv, TypeOK, OthersStay
  <2>3. /\ w.pc = "lookup" /\ w.req = task[t].req /\ w.guard = task[t].guard
        /\ w.arc = task[t].arc /\ w.value = task[t].value /\ w.made = task[t].made
    BY TaskFacts DEF TaskState
  <2> HIDE DEF w
  <2>4. <<task[t].pc, w.pc>> \in PlainSteps
    BY <2>1, <2>3 DEF PlainSteps
  <2> QED
    BY <2>1, <2>2, <2>3, <2>4, PlainStep
<1>2. CASE LookupMiss(t)
  <2>1. /\ task[t].pc = "lookup" /\ Goto(t, "registered") /\ UNCHANGED <<disk, cache>>
    BY <1>2 DEF LookupMiss, At, storeVars
  <2>2. <<task[t].pc, "registered">> \in PlainSteps
    BY <2>1 DEF PlainSteps
  <2> QED
    BY <2>1, <2>2, PlainGoto
<1>3. CASE CheckRegistered(t)
  <2>1. task[t].pc = "registered" /\ UNCHANGED <<disk, cache>>
    BY <1>3 DEF CheckRegistered, At, storeVars
  <2>2. Op(t) \notin SetOps
    BY <2>1 DEF FolderInv, TaskOK, GuardOK, Op
  <2>3. Fail(t) \/ Goto(t, "open")
    BY <1>3, <2>2 DEF CheckRegistered, SetOps
  <2>4. <<task[t].pc, "open">> \in PlainSteps
    BY <2>1 DEF PlainSteps
  <2>5. CASE Fail(t)
    BY <2>1, <2>5, FailStep
  <2>6. CASE Goto(t, "open")
    BY <2>1, <2>4, <2>6, PlainGoto
  <2> QED
    BY <2>3, <2>5, <2>6
<1>4. CASE OpenFails(t)
  <2>1. task[t].pc = "open" /\ Fail(t) /\ UNCHANGED <<disk, cache>>
    BY <1>4 DEF OpenFails, At, storeVars
  <2> QED
    BY <2>1, FailStep
<1>5. CASE Admit(t)
  <2> DEFINE w == [task[t] EXCEPT !.pc = "mark", !.rev = schema.revisions[Res(t)]]
  <2>1. /\ task[t].pc = "admit" /\ UNCHANGED <<disk, cache>>
        /\ Fail(t) \/ task' = [task EXCEPT ![t] = w]
    BY <1>5 DEF Admit, At, storeVars
  <2>2. CASE Fail(t)
    BY <2>1, <2>2, FailStep
  <2>3. CASE task' = [task EXCEPT ![t] = w]
    <3>1. task'[t] = w /\ OthersStay(t)
      BY <2>3 DEF Inv, TypeOK, OthersStay
    <3>2. /\ w.pc = "mark" /\ w.req = task[t].req /\ w.guard = task[t].guard
          /\ w.arc = task[t].arc /\ w.value = task[t].value /\ w.made = task[t].made
      BY TaskFacts DEF TaskState
    <3> HIDE DEF w
    <3>3. <<task[t].pc, w.pc>> \in PlainSteps
      BY <2>1, <3>2 DEF PlainSteps
    <3> QED
      BY <2>1, <3>1, <3>2, <3>3, PlainStep
  <2> QED
    BY <2>1, <2>2, <2>3
<1> QED
  BY <1>1, <1>2, <1>3, <1>4, <1>5

\* The inferred schema is no concern of the folder.
LEMMA InferredStep ==
    ASSUME Inv, FolderInv, NEW t \in Task, NEW inferred, NEW next,
           InstallInferred(t, inferred, next), task[t].pc \notin {"idle", "install"},
           <<task[t].pc, next>> \in PlainSteps, next = "certify" => Op(t) \in UpdateOps,
           UNCHANGED <<disk, cache>>
    PROVE  FolderInv'
<1>1. CASE Goto(t, next)
  BY <1>1, PlainGoto
<1>2. CASE Fail(t)
  BY <1>2, FailStep
<1> QED
  BY <1>1, <1>2 DEF InstallInferred

\* The other steps of an update.
LEMMA UpdateStep ==
    ASSUME Alone, Inv, FolderInv, NEW t \in Task,
           \/ ReadReadiness(t) \/ PersistFails(t) \/ SyncFails(t) \/ InferLocally(t)
    PROVE  FolderInv'
<1>1. CASE ReadReadiness(t)
  <2> DEFINE w == [task[t] EXCEPT !.pc = "persist", !.local = ready]
  <2>1. /\ task[t].pc = "readiness" /\ task' = [task EXCEPT ![t] = w]
        /\ UNCHANGED <<disk, cache>>
    BY <1>1 DEF ReadReadiness, At, storeVars
  <2>2. task'[t] = w /\ OthersStay(t)
    BY <2>1 DEF Inv, TypeOK, OthersStay
  <2>3. /\ w.pc = "persist" /\ w.req = task[t].req /\ w.guard = task[t].guard
        /\ w.arc = task[t].arc /\ w.value = task[t].value /\ w.made = task[t].made
    BY TaskFacts DEF TaskState
  <2> HIDE DEF w
  <2>4. <<task[t].pc, w.pc>> \in PlainSteps
    BY <2>1, <2>3 DEF PlainSteps
  <2> QED
    BY <2>1, <2>2, <2>3, <2>4, PlainStep
<1>2. CASE PersistFails(t)
  <2>1. task[t].pc = "persist" /\ Fail(t) /\ UNCHANGED <<disk, cache>>
    BY <1>2 DEF PersistFails, At, storeVars
  <2> QED
    BY <2>1, FailStep
<1>3. CASE SyncFails(t)
  BY <1>3 DEF SyncFails, Alone
<1>4. CASE InferLocally(t)
  <2> DEFINE inferred == [schema.inferred EXCEPT ![Res(t)] = InferTable(task[t].value)]
  <2>1. /\ task[t].pc = "infer" /\ InstallInferred(t, inferred, "certify")
        /\ UNCHANGED <<disk, cache>>
    BY <1>4 DEF InferLocally, At
  <2>2. Op(t) \in UpdateOps
    BY <2>1, TaskFacts DEF TaskInv, Allowed, UpdatePC, Op
  <2>3. <<task[t].pc, "certify">> \in PlainSteps
    BY <2>1 DEF PlainSteps
  <2> HIDE DEF inferred
  <2> QED
    BY <2>1, <2>2, <2>3, InferredStep
<1> QED
  BY <1>1, <1>2, <1>3, <1>4

\* The scan of a refresh.
LEMMA RefreshStep ==
    ASSUME Inv, FolderInv, NEW t \in Task, Refresh(t)
    PROVE  FolderInv'
<1>1. CASE SnapshotResources(t)
  <2> DEFINE w == [task[t] EXCEPT !.pc = "scan", !.todo = resources, !.tables = NoTables]
  <2>1. /\ task[t].pc = "snapshot" /\ task' = [task EXCEPT ![t] = w]
        /\ UNCHANGED <<disk, cache>>
    BY <1>1 DEF SnapshotResources, At, storeVars
  <2>2. task'[t] = w /\ OthersStay(t)
    BY <2>1 DEF Inv, TypeOK, OthersStay
  <2>3. /\ w.pc = "scan" /\ w.req = task[t].req /\ w.guard = task[t].guard
        /\ w.arc = task[t].arc /\ w.value = task[t].value /\ w.made = task[t].made
    BY TaskFacts DEF TaskState
  <2> HIDE DEF w
  <2>4. <<task[t].pc, w.pc>> \in PlainSteps
    BY <2>1, <2>3 DEF PlainSteps
  <2> QED
    BY <2>1, <2>2, <2>3, <2>4, PlainStep
<1>2. CASE ScanFile(t)
  <2>1. task[t].pc = "scan" /\ UNCHANGED <<disk, cache>>
    BY <1>2 DEF ScanFile, At, storeVars
  <2>2. CASE Fail(t)
    BY <2>1, <2>2, FailStep
  <2>3. CASE ~Fail(t)
    <3>1. PICK r \in task[t].todo :
              task' = [task EXCEPT ![t].todo = @ \ {r},
                                   ![t].tables[r] = InferTable(disk[r])]
      BY <1>2, <2>3 DEF ScanFile
    <3> DEFINE w == [task[t] EXCEPT !.todo = @ \ {r}, !.tables[r] = InferTable(disk[r])]
    <3>2. task'[t] = w /\ OthersStay(t)
      BY <3>1 DEF Inv, TypeOK, OthersStay
    <3>3. /\ w.pc = task[t].pc /\ w.req = task[t].req /\ w.guard = task[t].guard
          /\ w.arc = task[t].arc /\ w.value = task[t].value /\ w.made = task[t].made
      BY TaskFacts DEF TaskState
    <3> HIDE DEF w
    <3>4. <<task[t].pc, w.pc>> \in PlainSteps /\ w.pc # "certify"
      BY <2>1, <3>3 DEF PlainSteps
    <3> QED
      BY <2>1, <3>2, <3>3, <3>4, PlainStep
  <2> QED
    BY <2>2, <2>3
<1>3. CASE InstallRefreshed(t)
  <2>1. /\ task[t].pc = "scan" /\ InstallInferred(t, task[t].tables, "mark_ready")
        /\ UNCHANGED <<disk, cache>>
    BY <1>3 DEF InstallRefreshed, At
  <2>2. <<task[t].pc, "mark_ready">> \in PlainSteps
    BY <2>1 DEF PlainSteps
  <2> QED
    BY <2>1, <2>2, InferredStep
<1>4. CASE MarkReady(t)
  <2>1. task[t].pc = "mark_ready" /\ UNCHANGED <<disk, cache>>
    BY <1>4 DEF MarkReady, At
  <2>2. Op(t) \in UpdateOps
    BY <2>1, TaskFacts DEF FolderInv, TaskOK, GuardOK, TaskInv, Allowed, RefreshPC, Op
  <2>3. Goto(t, "certify")
    BY <1>4, <2>2 DEF MarkReady
  <2>4. <<task[t].pc, "certify">> \in PlainSteps
    BY <2>1 DEF PlainSteps
  <2> QED
    BY <2>1, <2>2, <2>3, <2>4, PlainGoto
<1>5. CASE Announce(t)
  <2>1. task[t].pc = "announce" /\ Succeed(t) /\ UNCHANGED <<disk, cache>>
    BY <1>5 DEF Announce, At
  <2>2. Op(t) # "create_item"
    BY <2>1, TaskFacts DEF TaskInv, Allowed, SetOps, Op
  <2>3. Steps(t) /\ KeepsStored(t) /\ task'[t].pc = "done" /\ TaskOK(task'[t], disk, cache)
    BY <2>1, <2>2, SucceedSteps
  <2> QED
    BY <2>1, <2>3, QuietStep
<1> QED
  BY <1>1, <1>2, <1>3, <1>4, <1>5 DEF Refresh

\* PUT /schema writes another file.
LEMMA PutSchemaStep ==
    ASSUME Inv, FolderInv, NEW t \in Task, PutSchema(t)
    PROVE  FolderInv'
<1>1. UNCHANGED <<disk, cache>>
  BY DEF PutSchema, CheckMerge, WriteSchemaFile, WriteSchemaFails, AdoptDeclared, storeVars
<1>2. PICK pc \in {"truncate", "write_schema", "adopt", "announce"} :
          /\ <<task[t].pc, pc>> \in PlainSteps
          /\ Goto(t, pc) \/ Fail(t)
  <2>1. CASE CheckMerge(t)
    BY <2>1 DEF CheckMerge, At, PlainSteps
  <2>2. CASE WriteSchemaFile(t)
    BY <2>2 DEF WriteSchemaFile, At, PlainSteps
  <2>3. CASE AdoptDeclared(t)
    BY <2>3 DEF AdoptDeclared, At, PlainSteps
  <2>4. CASE WriteSchemaFails(t)
    BY <2>4 DEF WriteSchemaFails, At, PlainSteps
  <2> QED
    BY <2>1, <2>2, <2>3, <2>4 DEF PutSchema
<1>3. task[t].pc \notin {"idle", "install"}
  BY <1>2 DEF PlainSteps
<1>4. CASE Goto(t, pc)
  BY <1>1, <1>2, <1>4, PlainGoto
<1>5. CASE Fail(t)
  BY <1>1, <1>3, <1>5, FailStep
<1> QED
  BY <1>2, <1>4, <1>5

\* Nobody manages resources.
LEMMA NoManageSet ==
    ASSUME Inv, FolderInv, NEW t \in Task
    PROVE  ~ManageSet(t)
<1>1. task[t].pc \notin SetPC
  BY TaskFacts DEF FolderInv, TaskOK, GuardOK, TaskInv, Allowed, SetPC, Op
<1> QED
  BY <1>1 DEF SetPC, ManageSet, ValidateInitial, CreateFile, FillFile, FillFails, Register,
              CacheNew, RemoveFile, Unregister, Uncache, At

\* Every step of a handler.
LEMMA HandleStep ==
    ASSUME Alone, Inv, FolderInv, NEW t \in Task, Handle(t)
    PROVE  FolderInv'
<1>1. CASE Acquire(t)
  BY <1>1, AcquireStep
<1>2. CASE Load(t)
  BY <1>2, LoadStep, LookupHitStep, LookupStaleStep, OpenFileStep, MarkStep,
     InsertIfAbsentStep
  DEF Load
<1>3. CASE Update(t)
  BY <1>3, UpdateStep, ApplyStep, PersistStep, InstallInCacheStep, CertifyStep DEF Update
<1>4. CASE Refresh(t)
  BY <1>4, RefreshStep
<1>5. CASE PutSchema(t)
  BY <1>5, PutSchemaStep
<1> QED
  BY <1>1, <1>2, <1>3, <1>4, <1>5, NoManageSet DEF Handle

-----------------------------------------------------------------------------
(***************************************************************************)
(* How the handlers go on.                                                 *)
(***************************************************************************)

\* The order of a handler's steps.
Flow ==
    {<<"acquire", "registered">>, <<"acquire", "lookup">>, <<"acquire", "revision">>,
     <<"revision", "lookup">>,
     <<"lookup", "apply">>, <<"lookup", "admit">>, <<"lookup", "registered">>,
     <<"lookup", "done">>,
     <<"registered", "create">>, <<"registered", "remove">>, <<"registered", "open">>,
     <<"registered", "done">>,
     <<"open", "admit">>, <<"open", "insert">>, <<"open", "done">>,
     <<"admit", "mark">>, <<"admit", "done">>,
     <<"mark", "apply">>, <<"mark", "done">>, <<"insert", "apply">>,
     <<"apply", "readiness">>, <<"apply", "done">>, <<"readiness", "persist">>,
     <<"persist", "install">>, <<"persist", "done">>,
     <<"install", "infer">>, <<"install", "snapshot">>,
     <<"infer", "certify">>, <<"infer", "done">>, <<"certify", "done">>,
     <<"snapshot", "scan">>, <<"scan", "scan">>, <<"scan", "mark_ready">>,
     <<"scan", "done">>, <<"mark_ready", "certify">>, <<"mark_ready", "announce">>,
     <<"announce", "done">>,
     <<"validate", "acquire">>, <<"validate", "done">>,
     <<"create", "fill">>, <<"create", "done">>, <<"fill", "register">>, <<"fill", "done">>,
     <<"register", "cache_new">>, <<"cache_new", "snapshot">>,
     <<"remove", "unregister">>, <<"remove", "done">>, <<"unregister", "uncache">>,
     <<"uncache", "snapshot">>,
     <<"merge", "truncate">>, <<"merge", "done">>, <<"truncate", "write_schema">>,
     <<"truncate", "done">>, <<"write_schema", "adopt">>, <<"write_schema", "done">>,
     <<"adopt", "announce">>, <<"adopt", "done">>}

\* A step of handler t from program counter pc: it keeps its request, and its
\* lock until it is done; it reports success only at the end.
GoesOn(t, pc) ==
    /\ OthersStay(t)
    /\ task[t].pc = pc
    /\ task'[t].req = task[t].req
    /\ <<pc, task'[t].pc>> \in Flow
    /\ task'[t].pc = "create" => Op(t) = "create_resource"
    /\ task'[t].pc = "remove" => Op(t) = "delete_resource"
    /\ task'[t].pc = "done" /\ task'[t].status = "ok"
           => pc \in {"certify", "announce"} \/ Op(t) \in ReadOps
    /\ pc # "acquire" =>
           task'[t].guard = IF task'[t].pc = "done" THEN "none" ELSE task[t].guard

\* An error return.
LEMMA FailGoesOn ==
    ASSUME Inv, NEW t \in Task, NEW pc, task[t].pc = pc, Fail(t), <<pc, "done">> \in Flow
    PROVE  GoesOn(t, pc)
<1> DEFINE w == [IdleTask EXCEPT !.pc = "done", !.req = task[t].req, !.status = "error"]
<1>1. task'[t] = w /\ OthersStay(t)
  BY DEF Fail, Inv, TypeOK, OthersStay
<1>2. w.pc = "done" /\ w.req = task[t].req /\ w.guard = "none" /\ w.status = "error"
  BY IdleTaskType DEF IdleTask
<1> HIDE DEF w
<1> QED
  BY <1>1, <1>2 DEF GoesOn

\* The next step, with what the handler has.
LEMMA NextGoesOn ==
    ASSUME Inv, NEW t \in Task, NEW pc, task[t].pc = pc, NEW w, task'[t] = w, OthersStay(t),
           w.req = task[t].req, w.guard = task[t].guard,
           pc # "acquire", <<pc, w.pc>> \in Flow, w.pc # "done",
           w.pc = "create" => Op(t) = "create_resource",
           w.pc = "remove" => Op(t) = "delete_resource"
    PROVE  GoesOn(t, pc)
  BY DEF GoesOn

\* Most of them only move the program counter.
LEMMA GotoGoesOn ==
    ASSUME Inv, NEW t \in Task, NEW pc, task[t].pc = pc, NEW next, Goto(t, next),
           pc # "acquire", <<pc, next>> \in Flow, next # "done",
           next = "create" => Op(t) = "create_resource",
           next = "remove" => Op(t) = "delete_resource"
    PROVE  GoesOn(t, pc) /\ task'[t] = [task[t] EXCEPT !.pc = next]
<1> DEFINE w == [task[t] EXCEPT !.pc = next]
<1>1. task'[t] = w /\ OthersStay(t)
  BY DEF Goto, Inv, TypeOK, OthersStay
<1>2. w.pc = next /\ w.req = task[t].req /\ w.guard = task[t].guard
  BY TaskFacts DEF TaskState
<1> HIDE DEF w
<1>3. GoesOn(t, pc)
  BY <1>1, <1>2, NextGoesOn
<1> QED
  BY <1>1, <1>3 DEF w

\* Success.
LEMMA SucceedGoesOn ==
    ASSUME Inv, NEW t \in Task, NEW pc, task[t].pc = pc, Succeed(t),
           pc \in {"certify", "announce"}
    PROVE  GoesOn(t, pc)
<1> DEFINE w == [IdleTask EXCEPT !.pc = "done", !.req = task[t].req, !.status = "ok",
                     !.value = task[t].value, !.rev = task[t].rev, !.made = task[t].made]
<1>1. task'[t] = w /\ OthersStay(t)
  BY DEF Succeed, Inv, TypeOK, OthersStay
<1>2. w.pc = "done" /\ w.req = task[t].req /\ w.guard = "none"
  BY IdleTaskType DEF IdleTask
<1> HIDE DEF w
<1>3. <<pc, "done">> \in Flow
  BY DEF Flow
<1> QED
  BY <1>1, <1>2, <1>3 DEF GoesOn

\* A snapshot that was found or loaded.
LEMMA LoadedGoesOn ==
    ASSUME Inv, NEW t \in Task, NEW pc, task[t].pc = pc, pc \in {"lookup", "mark"},
           NEW entry, Loaded(t, entry)
    PROVE  GoesOn(t, pc)
<1>1. <<pc, "done">> \in Flow /\ <<pc, "apply">> \in Flow
  BY DEF Flow
<1>2. CASE Op(t) \in ReadOps
  <2> DEFINE w == [IdleTask EXCEPT !.pc = "done", !.req = task[t].req, !.status = "ok",
                                   !.value = entry.value, !.rev = entry.rev]
  <2>1. task'[t] = w /\ OthersStay(t)
    BY <1>2 DEF Loaded, Inv, TypeOK, OthersStay
  <2>2. w.pc = "done" /\ w.req = task[t].req /\ w.guard = "none"
    BY IdleTaskType DEF IdleTask
  <2> HIDE DEF w
  <2> QED
    BY <1>1, <1>2, <2>1, <2>2 DEF GoesOn
<1>3. CASE Op(t) \notin ReadOps
  <2> DEFINE w == [task[t] EXCEPT !.pc = "apply", !.arc = entry.arc,
                                  !.value = entry.value, !.rev = entry.rev]
  <2>1. task'[t] = w /\ OthersStay(t)
    BY <1>3 DEF Loaded, Inv, TypeOK, OthersStay
  <2>2. w.pc = "apply" /\ w.req = task[t].req /\ w.guard = task[t].guard
    BY TaskFacts DEF TaskState
  <2> HIDE DEF w
  <2> QED
    BY <1>1, <2>1, <2>2, NextGoesOn
<1> QED
  BY <1>2, <1>3

\* Acquire: the lock, and no other change.
LEMMA AcquireGoesOn ==
    ASSUME Inv, NEW t \in Task, Acquire(t)
    PROVE  /\ GoesOn(t, "acquire")
           /\ task'[t].guard \in {"read", "write"}
           /\ Op(t) # "read" => task'[t].guard = "write"
           /\ LockFree(t, task'[t].guard)
<1> DEFINE mode == IF Op(t) = "read" THEN "read" ELSE "write"
           pc == IF Op(t) \in SetOps THEN "registered"
                 ELSE IF Op(t) \in AfterOnly THEN "lookup" ELSE "revision"
           w == [task[t] EXCEPT !.guard = mode, !.pc = pc]
<1>1. task[t].pc = "acquire" /\ LockFree(t, mode) /\ task' = [task EXCEPT ![t] = w]
  BY DEF Acquire, At
<1>2. task'[t] = w /\ OthersStay(t)
  BY <1>1 DEF Inv, TypeOK, OthersStay
<1>3. w.pc = pc /\ w.guard = mode /\ w.req = task[t].req
  BY TaskFacts DEF TaskState
<1>4. <<"acquire", pc>> \in Flow /\ pc \in {"registered", "lookup", "revision"}
  BY DEF Flow
<1>5. mode \in {"read", "write"} /\ (Op(t) # "read" => mode = "write")
  OBVIOUS
<1> HIDE DEF w, mode, pc
<1> QED
  BY <1>1, <1>2, <1>3, <1>4, <1>5 DEF GoesOn

\* The steps of a load.
LEMMA LoadGoesOn ==
    ASSUME Inv, NEW t \in Task, Load(t)
    PROVE  GoesOn(t, task[t].pc)
<1>1. CASE ReadRevision(t)
  <2> DEFINE w == [task[t] EXCEPT !.pc = "lookup", !.rev = schema.revisions[Res(t)]]
  <2>1. task[t].pc = "revision" /\ task'[t] = w /\ OthersStay(t)
    BY <1>1 DEF ReadRevision, At, Inv, TypeOK, OthersStay
  <2>2. w.pc = "lookup" /\ w.req = task[t].req /\ w.guard = task[t].guard
    BY TaskFacts DEF TaskState
  <2> HIDE DEF w
  <2>3. <<task[t].pc, w.pc>> \in Flow
    BY <2>1, <2>2 DEF Flow
  <2> QED
    BY <2>1, <2>2, <2>3, NextGoesOn
<1>2. CASE LookupHit(t)
  BY <1>2, LoadedGoesOn DEF LookupHit, At
<1>3. CASE LookupStale(t)
  <2> DEFINE w == [task[t] EXCEPT !.pc = "admit", !.arc = cache[Res(t)].arc,
                                  !.value = cache[Res(t)].value]
  <2>1. task[t].pc = "lookup" /\ task'[t] = w /\ OthersStay(t)
    BY <1>3 DEF LookupStale, At, Inv, TypeOK, OthersStay
  <2>2. w.pc = "admit" /\ w.req = task[t].req /\ w.guard = task[t].guard
    BY TaskFacts DEF TaskState
  <2> HIDE DEF w
  <2>3. <<task[t].pc, w.pc>> \in Flow
    BY <2>1, <2>2 DEF Flow
  <2> QED
    BY <2>1, <2>2, <2>3, NextGoesOn
<1>4. CASE LookupMiss(t)
  <2>1. task[t].pc = "lookup" /\ Goto(t, "registered")
    BY <1>4 DEF LookupMiss, At
  <2>2. <<task[t].pc, "registered">> \in Flow
    BY <2>1 DEF Flow
  <2> QED
    BY <2>1, <2>2, GotoGoesOn
<1>5. CASE CheckRegistered(t)
  <2>1. task[t].pc = "registered"
    BY <1>5 DEF CheckRegistered, At
  <2>2. /\ <<task[t].pc, "done">> \in Flow /\ <<task[t].pc, "create">> \in Flow
        /\ <<task[t].pc, "remove">> \in Flow /\ <<task[t].pc, "open">> \in Flow
    BY <2>1 DEF Flow
  <2>3. CASE Fail(t)
    BY <2>2, <2>3, FailGoesOn
  <2>4. CASE ~Fail(t)
    <3>1. \/ Goto(t, "create") /\ Op(t) = "create_resource"
          \/ Goto(t, "remove") /\ Op(t) = "delete_resource"
          \/ Goto(t, "open")
      BY <1>5, <2>4 DEF CheckRegistered
    <3>2. ASSUME NEW next \in {"create", "remove", "open"}, Goto(t, next),
                 next = "create" => Op(t) = "create_resource",
                 next = "remove" => Op(t) = "delete_resource"
          PROVE  GoesOn(t, task[t].pc)
      <4>1. task[t].pc # "acquire" /\ <<task[t].pc, next>> \in Flow /\ next # "done"
        BY <2>1, <2>2
      <4> QED
        BY <3>2, <4>1, GotoGoesOn
    <3> QED
      BY <3>1, <3>2
  <2> QED
    BY <2>3, <2>4
<1>6. CASE OpenFile(t)
  <2> DEFINE pc == IF Validated(t) THEN "admit" ELSE "insert"
             w == [task[t] EXCEPT !.pc = pc, !.value = disk[Res(t)], !.arc = FreshArc]
  <2>1. task[t].pc = "open" /\ task'[t] = w /\ OthersStay(t)
    BY <1>6 DEF OpenFile, At, Inv, TypeOK, OthersStay
  <2>2. w.pc \in {"admit", "insert"} /\ w.req = task[t].req /\ w.guard = task[t].guard
    BY TaskFacts DEF TaskState
  <2> HIDE DEF w
  <2>3. <<task[t].pc, w.pc>> \in Flow
    BY <2>1, <2>2 DEF Flow
  <2> QED
    BY <2>1, <2>2, <2>3, NextGoesOn
<1>7. CASE OpenFails(t)
  <2>1. task[t].pc = "open" /\ Fail(t)
    BY <1>7 DEF OpenFails, At
  <2>2. <<task[t].pc, "done">> \in Flow
    BY <2>1 DEF Flow
  <2> QED
    BY <2>1, <2>2, FailGoesOn
<1>8. CASE Admit(t)
  <2> DEFINE w == [task[t] EXCEPT !.pc = "mark", !.rev = schema.revisions[Res(t)]]
  <2>1. task[t].pc = "admit" /\ (Fail(t) \/ task' = [task EXCEPT ![t] = w])
    BY <1>8 DEF Admit, At
  <2>2. <<task[t].pc, "done">> \in Flow /\ <<task[t].pc, "mark">> \in Flow
    BY <2>1 DEF Flow
  <2>3. CASE Fail(t)
    BY <2>1, <2>2, <2>3, FailGoesOn
  <2>4. CASE task' = [task EXCEPT ![t] = w]
    <3>1. task'[t] = w /\ OthersStay(t)
      BY <2>4 DEF Inv, TypeOK, OthersStay
    <3>2. w.pc = "mark" /\ w.req = task[t].req /\ w.guard = task[t].guard
      BY TaskFacts DEF TaskState
    <3> HIDE DEF w
    <3> QED
      BY <2>1, <2>2, <3>1, <3>2, NextGoesOn
  <2> QED
    BY <2>1, <2>3, <2>4
<1>9. CASE Mark(t)
  BY <1>9, LoadedGoesOn DEF Mark, At
<1>10. CASE InsertIfAbsent(t)
  <2>1. task[t].pc = "insert" /\ Goto(t, "apply")
    BY <1>10 DEF InsertIfAbsent, At
  <2>2. <<task[t].pc, "apply">> \in Flow
    BY <2>1 DEF Flow
  <2> QED
    BY <2>1, <2>2, GotoGoesOn
<1> QED
  BY <1>1, <1>2, <1>3, <1>4, <1>5, <1>6, <1>7, <1>8, <1>9, <1>10 DEF Load

\* The inferred schema is assigned, whether or not it can be merged.
LEMMA InferredGoesOn ==
    ASSUME Inv, NEW t \in Task, NEW inferred, NEW next, InstallInferred(t, inferred, next),
           task[t].pc # "acquire", <<task[t].pc, next>> \in Flow,
           <<task[t].pc, "done">> \in Flow, next \in {"certify", "mark_ready"}
    PROVE  GoesOn(t, task[t].pc)
<1>1. CASE Goto(t, next)
  BY <1>1, GotoGoesOn
<1>2. CASE Fail(t)
  BY <1>2, FailGoesOn
<1> QED
  BY <1>1, <1>2 DEF InstallInferred

\* The steps of an update.
LEMMA UpdateGoesOn ==
    ASSUME Inv, NEW t \in Task, Update(t)
    PROVE  GoesOn(t, task[t].pc)
<1>1. CASE Apply(t)
  <2> DEFINE new == Updated(task[t].req, task[t].value)
             w == [task[t] EXCEPT !.pc = "readiness", !.value = new, !.arc = FreshArc,
                      !.rev = schema.revisions[Res(t)],
                      !.made = Position(task[t].req, task[t].value)]
  <2>1. task[t].pc = "apply" /\ (Fail(t) \/ task' = [task EXCEPT ![t] = w])
    BY <1>1 DEF Apply, At
  <2>2. <<task[t].pc, "done">> \in Flow /\ <<task[t].pc, "readiness">> \in Flow
    BY <2>1 DEF Flow
  <2>3. CASE Fail(t)
    BY <2>1, <2>2, <2>3, FailGoesOn
  <2>4. CASE task' = [task EXCEPT ![t] = w]
    <3>1. task'[t] = w /\ OthersStay(t)
      BY <2>4 DEF Inv, TypeOK, OthersStay
    <3>2. w.pc = "readiness" /\ w.req = task[t].req /\ w.guard = task[t].guard
      BY TaskFacts DEF TaskState
    <3> HIDE DEF w
    <3> QED
      BY <2>1, <2>2, <3>1, <3>2, NextGoesOn
  <2> QED
    BY <2>1, <2>3, <2>4
<1>2. CASE ReadReadiness(t)
  <2> DEFINE w == [task[t] EXCEPT !.pc = "persist", !.local = ready]
  <2>1. task[t].pc = "readiness" /\ task'[t] = w /\ OthersStay(t)
    BY <1>2 DEF ReadReadiness, At, Inv, TypeOK, OthersStay
  <2>2. w.pc = "persist" /\ w.req = task[t].req /\ w.guard = task[t].guard
    BY TaskFacts DEF TaskState
  <2> HIDE DEF w
  <2>3. <<task[t].pc, w.pc>> \in Flow
    BY <2>1, <2>2 DEF Flow
  <2> QED
    BY <2>1, <2>2, <2>3, NextGoesOn
<1>3. CASE Persist(t)
  <2>1. task[t].pc = "persist" /\ Goto(t, "install")
    BY <1>3 DEF Persist, At
  <2>2. <<task[t].pc, "install">> \in Flow
    BY <2>1 DEF Flow
  <2> QED
    BY <2>1, <2>2, GotoGoesOn
<1>4. CASE PersistFails(t) \/ SyncFails(t)
  <2>1. task[t].pc \in {"persist", "fill", "remove"} /\ Fail(t)
    BY <1>4 DEF PersistFails, SyncFails, At
  <2>2. <<task[t].pc, "done">> \in Flow
    BY <2>1 DEF Flow
  <2> QED
    BY <2>1, <2>2, FailGoesOn
<1>5. CASE InstallInCache(t)
  <2> DEFINE next == IF task[t].local THEN "infer" ELSE "snapshot"
  <2>1. task[t].pc = "install" /\ Goto(t, next)
    BY <1>5 DEF InstallInCache, At
  <2>2. <<task[t].pc, next>> \in Flow /\ next \in {"infer", "snapshot"}
    BY <2>1 DEF Flow
  <2> HIDE DEF next
  <2> QED
    BY <2>1, <2>2, GotoGoesOn
<1>6. CASE InferLocally(t)
  <2> DEFINE inferred == [schema.inferred EXCEPT ![Res(t)] = InferTable(task[t].value)]
  <2>1. task[t].pc = "infer" /\ InstallInferred(t, inferred, "certify")
    BY <1>6 DEF InferLocally, At
  <2>2. <<task[t].pc, "certify">> \in Flow /\ <<task[t].pc, "done">> \in Flow
    BY <2>1 DEF Flow
  <2> HIDE DEF inferred
  <2> QED
    BY <2>1, <2>2, InferredGoesOn
<1>7. CASE Certify(t)
  BY <1>7, SucceedGoesOn DEF Certify, At
<1> QED
  BY <1>1, <1>2, <1>3, <1>4, <1>5, <1>6, <1>7 DEF Update

\* The steps of a refresh.
LEMMA RefreshGoesOn ==
    ASSUME Inv, NEW t \in Task, Refresh(t)
    PROVE  GoesOn(t, task[t].pc)
<1>1. CASE SnapshotResources(t)
  <2> DEFINE w == [task[t] EXCEPT !.pc = "scan", !.todo = resources, !.tables = NoTables]
  <2>1. task[t].pc = "snapshot" /\ task'[t] = w /\ OthersStay(t)
    BY <1>1 DEF SnapshotResources, At, Inv, TypeOK, OthersStay
  <2>2. w.pc = "scan" /\ w.req = task[t].req /\ w.guard = task[t].guard
    BY TaskFacts DEF TaskState
  <2> HIDE DEF w
  <2>3. <<task[t].pc, w.pc>> \in Flow
    BY <2>1, <2>2 DEF Flow
  <2> QED
    BY <2>1, <2>2, <2>3, NextGoesOn
<1>2. CASE ScanFile(t)
  <2>1. task[t].pc = "scan"
    BY <1>2 DEF ScanFile, At
  <2>2. <<task[t].pc, "done">> \in Flow /\ <<task[t].pc, "scan">> \in Flow
    BY <2>1 DEF Flow
  <2>3. CASE Fail(t)
    BY <2>1, <2>2, <2>3, FailGoesOn
  <2>4. CASE ~Fail(t)
    <3>1. PICK r \in task[t].todo :
              task' = [task EXCEPT ![t].todo = @ \ {r},
                                   ![t].tables[r] = InferTable(disk[r])]
      BY <1>2, <2>4 DEF ScanFile
    <3> DEFINE w == [task[t] EXCEPT !.todo = @ \ {r}, !.tables[r] = InferTable(disk[r])]
    <3>2. task'[t] = w /\ OthersStay(t)
      BY <3>1 DEF Inv, TypeOK, OthersStay
    <3>3. w.pc = task[t].pc /\ w.req = task[t].req /\ w.guard = task[t].guard
      BY TaskFacts DEF TaskState
    <3> HIDE DEF w
    <3> QED
      BY <2>1, <2>2, <3>2, <3>3, NextGoesOn
  <2> QED
    BY <2>3, <2>4
<1>3. CASE InstallRefreshed(t)
  <2>1. task[t].pc = "scan" /\ InstallInferred(t, task[t].tables, "mark_ready")
    BY <1>3 DEF InstallRefreshed, At
  <2>2. <<task[t].pc, "mark_ready">> \in Flow /\ <<task[t].pc, "done">> \in Flow
    BY <2>1 DEF Flow
  <2> QED
    BY <2>1, <2>2, InferredGoesOn
<1>4. CASE MarkReady(t)
  <2> DEFINE next == IF Op(t) \in UpdateOps THEN "certify" ELSE "announce"
  <2>1. task[t].pc = "mark_ready" /\ Goto(t, next)
    BY <1>4 DEF MarkReady, At
  <2>2. <<task[t].pc, next>> \in Flow /\ next \in {"certify", "announce"}
    BY <2>1 DEF Flow
  <2> HIDE DEF next
  <2> QED
    BY <2>1, <2>2, GotoGoesOn
<1>5. CASE Announce(t)
  BY <1>5, SucceedGoesOn DEF Announce, At
<1> QED
  BY <1>1, <1>2, <1>3, <1>4, <1>5 DEF Refresh

\* The steps that change the resource set, and those of PUT /schema.
LEMMA ManageGoesOn ==
    ASSUME Inv, NEW t \in Task, ManageSet(t) \/ PutSchema(t)
    PROVE  GoesOn(t, task[t].pc)
<1>1. \/ /\ Fail(t)
         /\ task[t].pc \in {"validate", "create", "fill", "remove"} \cup PutPC
      \/ \E next \in {"acquire", "fill", "register", "cache_new", "snapshot", "unregister",
                      "uncache", "truncate", "write_schema", "adopt", "announce"} :
             /\ Goto(t, next)
             /\ <<task[t].pc, next>> \in Flow
             /\ task[t].pc # "acquire"
  <2>1. CASE ManageSet(t)
    BY <2>1
    DEF ManageSet, ValidateInitial, CreateFile, FillFile, FillFails, Register, CacheNew,
        RemoveFile, Unregister, Uncache, At, Flow
  <2>2. CASE PutSchema(t)
    BY <2>2 DEF PutSchema, CheckMerge, WriteSchemaFile, WriteSchemaFails, AdoptDeclared, At,
                Flow, PutPC
  <2> QED
    BY <2>1, <2>2
<1>2. CASE /\ Fail(t)
           /\ task[t].pc \in {"validate", "create", "fill", "remove"} \cup PutPC
  <2>1. <<task[t].pc, "done">> \in Flow
    BY <1>2 DEF Flow, PutPC
  <2> QED
    BY <1>2, <2>1, FailGoesOn
<1>3. ASSUME NEW next \in {"acquire", "fill", "register", "cache_new", "snapshot",
                           "unregister", "uncache", "truncate", "write_schema", "adopt",
                           "announce"},
             Goto(t, next), <<task[t].pc, next>> \in Flow, task[t].pc # "acquire"
      PROVE  GoesOn(t, task[t].pc)
  BY <1>3, GotoGoesOn
<1> QED
  BY <1>1, <1>2, <1>3

\* Every step of a handler.
LEMMA HandleGoesOn ==
    ASSUME Inv, NEW t \in Task, Handle(t)
    PROVE  GoesOn(t, task[t].pc)
<1>1. CASE Acquire(t)
  BY <1>1, AcquireGoesOn DEF Acquire, At
<1> QED
  BY <1>1, LoadGoesOn, UpdateGoesOn, RefreshGoesOn, ManageGoesOn DEF Handle

\* A handler writes one file, its own: with what it carries, with the empty
\* file that a creation starts with, with the initial document, or by removing
\* it.  The watcher hears of it.
WritesFile(t, content) ==
    /\ disk' = [disk EXCEPT ![Res(t)] = content]
    /\ Notify(Res(t))
    /\ \/ task[t].pc = "persist" /\ content = task[t].value
       \/ task[t].pc = "create" /\ disk[Res(t)] = Absent /\ content = Garbage
       \/ task[t].pc = "fill" /\ content = task[t].req.doc
       \/ task[t].pc = "remove" /\ content = Absent

LeavesFiles(t) ==
    /\ UNCHANGED disk
    /\ UNCHANGED queue \/ Notify(SchemaFile)
    /\ task'[t].pc \notin {"fill", "register", "install", "unregister"}

\* Every step of a handler does one or the other.
LEMMA FilesWritten ==
    ASSUME Inv, NEW t \in Task, Handle(t)
    PROVE  LeavesFiles(t) \/ \E content : WritesFile(t, content)
<1>1. GoesOn(t, task[t].pc)
  BY HandleGoesOn
<1>2. /\ task'[t].pc = "fill" => task[t].pc = "create"
      /\ task'[t].pc = "register" => task[t].pc = "fill"
      /\ task'[t].pc = "install" => task[t].pc = "persist"
      /\ task'[t].pc = "unregister" => task[t].pc = "remove"
  BY <1>1 DEF GoesOn, Flow
<1>3. ASSUME Fail(t)
      PROVE  task'[t].pc = "done"
  BY <1>3 DEF Fail, Inv, TypeOK
<1>4. CASE Acquire(t)
  BY <1>2, <1>4 DEF Acquire, At, LeavesFiles, storeVars
<1>5. CASE Load(t)
  BY <1>2, <1>5
  DEF Load, ReadRevision, LookupHit, LookupStale, LookupMiss, CheckRegistered, OpenFile,
      OpenFails, Admit, Mark, InsertIfAbsent, At, LeavesFiles, storeVars
<1>6. CASE Update(t)
  <2>1. CASE Persist(t)
    BY <2>1 DEF Persist, WriteDisk, WritesFile, At
  <2>2. CASE SyncFails(t)
    BY <2>2 DEF SyncFails, WriteDisk, WritesFile, At
  <2>3. CASE PersistFails(t)
    BY <1>3, <2>3 DEF PersistFails, LeavesFiles, storeVars
  <2> QED
    BY <1>2, <1>6, <2>1, <2>2, <2>3
    DEF Update, Apply, ReadReadiness, InstallInCache, InferLocally, Certify, At,
        LeavesFiles, storeVars
<1>7. CASE Refresh(t)
  BY <1>2, <1>7
  DEF Refresh, SnapshotResources, ScanFile, InstallRefreshed, MarkReady, Announce, At,
      LeavesFiles, storeVars
<1>8. CASE ManageSet(t)
  <2>1. CASE CreateFile(t)
    BY <1>3, <2>1 DEF CreateFile, WriteDisk, WritesFile, LeavesFiles, At
  <2>2. CASE FillFile(t)
    BY <2>2 DEF FillFile, WriteDisk, WritesFile, At
  <2>3. CASE RemoveFile(t)
    BY <1>3, <2>3 DEF RemoveFile, WriteDisk, WritesFile, LeavesFiles, At
  <2>4. CASE FillFails(t)
    BY <1>3, <2>4 DEF FillFails, LeavesFiles, storeVars
  <2> QED
    BY <1>2, <1>8, <2>1, <2>2, <2>3, <2>4
    DEF ManageSet, ValidateInitial, Register, CacheNew, Unregister, Uncache, At,
        LeavesFiles, storeVars
<1>9. CASE PutSchema(t)
  BY <1>2, <1>3, <1>9
  DEF PutSchema, CheckMerge, WriteSchemaFile, WriteSchemaFails, AdoptDeclared, At,
      LeavesFiles, storeVars
<1> QED
  BY <1>4, <1>5, <1>6, <1>7, <1>8, <1>9 DEF Handle

-----------------------------------------------------------------------------
(***************************************************************************)
(* How the watcher goes on: the fields of its state, step by step.         *)
(***************************************************************************)

\* The fields that a step of the watcher leaves alone.
Remembers ==
    /\ watcher'.path = watcher.path
    /\ watcher'.found = watcher.found
KeepsPrevious == watcher'.previous = watcher.previous
KeepsValue == watcher'.value = watcher.value
KeepsScan ==
    /\ watcher'.full = watcher.full
    /\ watcher'.todo = watcher.todo
    /\ watcher'.tables = watcher.tables

\* Most steps only move the program counter.
LEMMA WatcherGotoIs ==
    ASSUME Inv, NEW pc, WatcherGoto(pc)
    PROVE  /\ watcher'.pc = pc
           /\ Remembers /\ KeepsPrevious /\ KeepsValue /\ KeepsScan
           /\ watcher'.overlay = watcher.overlay
  BY DEF Inv, TypeOK, WatcherState, WatcherGoto, Remembers, KeepsPrevious, KeepsValue,
         KeepsScan

\* The end of an event.
LEMMA EndOfEventIs ==
    ASSUME EndOfEvent
    PROVE  /\ watcher'.pc = "waiting" /\ watcher'.path = NoValue
           /\ watcher'.value = NoValue /\ watcher'.tables = NoTables
  BY DEF EndOfEvent, WaitingWatcher

\* TakeEvent: the files that are there now.
LEMMA TakeEventIs ==
    ASSUME Inv, TakeEvent
    PROVE  /\ watcher.pc = "waiting" /\ watcher'.pc = "compare"
           /\ watcher'.path = Head(queue)
           /\ watcher'.found = {r \in Resource : disk[r] # Absent}
           /\ KeepsValue /\ KeepsScan
  BY DEF Inv, TypeOK, WatcherState, TakeEvent, TakesEvent, WatcherAt, KeepsValue, KeepsScan

\* ListFails: the folder stays unknown.
LEMMA ListFailsIs ==
    ASSUME Inv, ListFails
    PROVE  /\ watcher.pc = "waiting" /\ watcher'.pc = "unlisted"
           /\ watcher'.path = Head(queue)
  BY DEF Inv, TypeOK, WatcherState, ListFails, TakesEvent, WatcherAt

\* ReadPrevious: the resources served.
LEMMA ReadPreviousIs ==
    ASSUME Inv, ReadPrevious
    PROVE  /\ watcher.pc = "compare"
           /\ watcher'.pc = IF SchemaTouched THEN "load" ELSE "publish"
           /\ watcher'.previous = resources
           /\ Remembers /\ KeepsValue /\ KeepsScan
  BY DEF Inv, TypeOK, WatcherState, ReadPrevious, WatcherAt, Remembers, KeepsValue,
         KeepsScan

\* LoadSchema: the overlay of the file.
LEMMA LoadSchemaIs ==
    ASSUME Inv, LoadSchema
    PROVE  /\ watcher.pc = "load"
           /\ Remembers /\ KeepsPrevious /\ KeepsValue /\ KeepsScan
           /\ \/ schemaFile = Garbage /\ watcher'.pc = "fail"
              \/ /\ schemaFile # Garbage /\ watcher'.pc = "replace"
                 /\ watcher'.overlay = FileOverlay
  BY DEF Inv, TypeOK, WatcherState, LoadSchema, WatcherAt, Remembers, KeepsPrevious,
         KeepsValue, KeepsScan, FileOverlay

\* ReplaceOverlay: the overlay is adopted or the event given up.
LEMMA ReplaceOverlayIs ==
    ASSUME Inv, ReplaceOverlay
    PROVE  /\ watcher.pc = "replace"
           /\ Remembers /\ KeepsPrevious /\ KeepsValue /\ KeepsScan
           /\ \/ /\ CanReplaceDeclared(schema, watcher.overlay)
                 /\ schema' = ReplaceDeclared(schema, watcher.overlay)
                 /\ watcher'.pc = "publish"
              \/ /\ ~CanReplaceDeclared(schema, watcher.overlay)
                 /\ UNCHANGED schema /\ watcher'.pc = "fail"
<1>1. watcher.pc = "replace"
  BY DEF ReplaceOverlay, WatcherAt
<1>2. CASE CanReplaceDeclared(schema, watcher.overlay)
  <2>1. /\ schema' = ReplaceDeclared(schema, watcher.overlay)
        /\ watcher' = [watcher EXCEPT !.pc = "publish", !.overlay = NoValue]
    BY <1>2 DEF ReplaceOverlay
  <2>2. watcher'.pc = "publish" /\ Remembers /\ KeepsPrevious /\ KeepsValue /\ KeepsScan
    BY <2>1 DEF Inv, TypeOK, WatcherState, Remembers, KeepsPrevious, KeepsValue, KeepsScan
  <2> QED
    BY <1>1, <1>2, <2>1, <2>2
<1>3. CASE ~CanReplaceDeclared(schema, watcher.overlay)
  BY <1>1, <1>3, WatcherGotoIs DEF ReplaceOverlay
<1> QED
  BY <1>2, <1>3

\* ReadChanged: the content of the changed file.
LEMMA ReadChangedIs ==
    ASSUME Inv, ReadChanged
    PROVE  /\ watcher.pc = "read"
           /\ Remembers /\ KeepsPrevious /\ KeepsScan
           /\ \/ /\ disk[watcher.path] \notin Snapshot
                 /\ watcher'.pc = "evict" /\ KeepsValue
              \/ /\ disk[watcher.path] \in Snapshot
                 /\ watcher'.pc = "decide" /\ watcher'.value = disk[watcher.path]
  BY DEF Inv, TypeOK, WatcherState, ReadChanged, WatcherAt, Remembers, KeepsPrevious,
         KeepsValue, KeepsScan

\* DecideInference: the whole folder or the changed file.
LEMMA DecideInferenceIs ==
    ASSUME Inv, DecideInference
    PROVE  /\ watcher.pc = "decide"
           /\ Remembers /\ KeepsPrevious /\ KeepsValue
           /\ watcher'.full = (~ready \/ watcher.previous # watcher.found)
           /\ watcher'.pc = IF watcher'.full THEN "infer" ELSE "install"
           /\ watcher'.todo = IF watcher'.full THEN watcher.found ELSE {}
           /\ watcher'.tables = watcher.tables
<1> DEFINE full == ~ready \/ watcher.previous # watcher.found
           w == [watcher EXCEPT !.full = full, !.pc = IF full THEN "infer" ELSE "install",
                                !.todo = IF full THEN watcher.found ELSE {}]
<1>1. watcher.pc = "decide" /\ watcher' = w
  BY DEF DecideInference, WatcherAt
<1>2. w.full = full
  BY DEF Inv, TypeOK, WatcherState
<1>3. w.pc = IF full THEN "infer" ELSE "install"
  BY DEF Inv, TypeOK, WatcherState
<1>4. w.todo = IF full THEN watcher.found ELSE {}
  BY DEF Inv, TypeOK, WatcherState
<1>5. /\ w.path = watcher.path /\ w.found = watcher.found /\ w.previous = watcher.previous
      /\ w.value = watcher.value /\ w.tables = watcher.tables
  BY DEF Inv, TypeOK, WatcherState
<1> HIDE DEF w
<1> QED
  BY <1>1, <1>2, <1>3, <1>4, <1>5 DEF Remembers, KeepsPrevious, KeepsValue

\* InferFile: the table of one more file.
LEMMA InferFileIs ==
    ASSUME Inv, InferFile
    PROVE  /\ watcher.pc = "infer"
           /\ Remembers /\ KeepsPrevious /\ KeepsValue
           /\ watcher'.full = watcher.full
           /\ \/ /\ watcher'.pc = "fail"
                 /\ \E r \in watcher.todo : disk[r] \notin Snapshot
              \/ \E r \in watcher.todo :
                     /\ disk[r] \in Snapshot
                     /\ watcher'.todo = watcher.todo \ {r}
                     /\ watcher'.tables = [watcher.tables EXCEPT ![r] = InferTable(disk[r])]
                     /\ watcher'.pc = IF watcher.todo = {r} THEN "install" ELSE "infer"
<1>1. PICK r \in watcher.todo :
          watcher' = IF disk[r] \in Snapshot
                     THEN [watcher EXCEPT !.todo = @ \ {r},
                               !.tables[r] = InferTable(disk[r]),
                               !.pc = IF watcher.todo = {r} THEN "install" ELSE @]
                     ELSE [watcher EXCEPT !.pc = "fail"]
  BY DEF InferFile
<1>2. watcher.pc = "infer" /\ watcher \in WatcherState
  BY DEF InferFile, WatcherAt, Inv, TypeOK
<1>3. CASE disk[r] \notin Snapshot
  BY <1>1, <1>2, <1>3, WatcherGotoIs DEF WatcherGoto, KeepsScan
<1>4. CASE disk[r] \in Snapshot
  <2> DEFINE todo == watcher.todo \ {r}
             tables == [watcher.tables EXCEPT ![r] = InferTable(disk[r])]
             pc == IF watcher.todo = {r} THEN "install" ELSE "infer"
             w == [watcher EXCEPT !.todo = todo, !.tables = tables, !.pc = pc]
  <2>1. watcher' = w
    BY <1>1, <1>2, <1>4
  <2> HIDE DEF todo, tables, pc
  <2>2. /\ w.todo = todo /\ w.tables = tables /\ w.pc = pc
        /\ w.path = watcher.path /\ w.found = watcher.found /\ w.previous = watcher.previous
        /\ w.value = watcher.value /\ w.full = watcher.full
    BY <1>2 DEF WatcherState
  <2> HIDE DEF w
  <2> QED
    BY <1>2, <1>4, <2>1, <2>2 DEF Remembers, KeepsPrevious, KeepsValue, todo, tables, pc
<1> QED
  BY <1>3, <1>4

\* What the watcher leaves alone.
LEMMA WatchLeaves ==
    ASSUME Watch
    PROVE  /\ UNCHANGED <<disk, schemaFile, task>>
           /\ ~TakesEvent => UNCHANGED queue
           /\ ~PublishResources => UNCHANGED resources
           /\ ~(EvictBroken \/ RefreshCache) => UNCHANGED cache
           /\ ~(ReplaceOverlay \/ InstallTables) => UNCHANGED schema
           /\ ~(GiveUp \/ WatcherMarksReady) => UNCHANGED ready
  BY DEF Watch, TakeEvent, ListFails, TakesEvent, ReadPrevious, LoadSchema, ReplaceOverlay,
      PublishResources, ChangedExists, ReadChanged, EvictBroken, GiveUp, DecideInference,
      InferFile, InferNothing, InstallTables, SkipInstall, RefreshCache, WatcherMarksReady,
      requestVars

\* It handles one event from its list of the folder to the end.
LEMMA WatchGoesOn ==
    ASSUME Inv, Watch
    PROVE  \/ TakeEvent
           \/ ListFails
           \/ watcher.pc # "waiting" /\ watcher'.pc # "waiting" /\ Remembers
           \/ watcher.pc # "waiting" /\ EndOfEvent
<1>1. CASE ReadPrevious
  BY <1>1, ReadPreviousIs
<1>2. CASE LoadSchema
  BY <1>2, LoadSchemaIs
<1>3. CASE ReplaceOverlay
  BY <1>3, ReplaceOverlayIs
<1>4. CASE PublishResources
  BY <1>4, WatcherGotoIs DEF PublishResources, WatcherAt
<1>5. CASE ChangedExists
  BY <1>5, WatcherGotoIs DEF ChangedExists, WatcherAt
<1>6. CASE ReadChanged
  BY <1>6, ReadChangedIs
<1>7. CASE EvictBroken
  BY <1>7, WatcherGotoIs DEF EvictBroken, WatcherAt
<1>8. CASE GiveUp
  BY <1>8 DEF GiveUp, WatcherAt
<1>9. CASE DecideInference
  BY <1>9, DecideInferenceIs
<1>10. CASE InferFile
  BY <1>10, InferFileIs
<1>11. CASE InferNothing
  BY <1>11, WatcherGotoIs DEF InferNothing, WatcherAt
<1>12. CASE InstallTables
  BY <1>12, WatcherGotoIs DEF InstallTables, WatcherAt
<1>13. CASE SkipInstall
  BY <1>13, WatcherGotoIs DEF SkipInstall, WatcherAt
<1>14. CASE RefreshCache
  BY <1>14, WatcherGotoIs DEF RefreshCache, WatcherAt
<1>15. CASE WatcherMarksReady
  BY <1>15 DEF WatcherMarksReady, WatcherAt
<1> QED
  BY <1>1, <1>2, <1>3, <1>4, <1>5, <1>6, <1>7, <1>8, <1>9, <1>10, <1>11, <1>12, <1>13, <1>14,
     <1>15
  DEF Watch

\* What it publishes, installs and caches.
LEMMA PublishIs ==
    ASSUME Inv, PublishResources
    PROVE  /\ watcher.pc = "publish"
           /\ resources' = watcher.found
           /\ watcher'.pc = IF SchemaTouched THEN "decide" ELSE "exists"
           /\ Remembers /\ KeepsPrevious /\ KeepsValue /\ KeepsScan
  BY WatcherGotoIs DEF PublishResources, WatcherAt

-----------------------------------------------------------------------------
(***************************************************************************)
(* Who hears of what: a change of a file is reported, and only the watcher *)
(* takes a report away, one at a time.                                     *)
(***************************************************************************)

\* An event of p is still to be handled.
Due(p) == \E i \in 1..Len(queue) : queue[i] = p

Reported == \A p : Due(p) => Due(p)'

\* A report comes to those there are, if the watcher runs.
LEMMA NotifyAdds ==
    ASSUME WatcherRunning, Inv, NEW p \in {SchemaFile} \cup Resource, Notify(p)
    PROVE  /\ Due(p)' /\ Reported
           /\ \A q : Due(q)' => Due(q) \/ q = p
<1>1. queue \in Seq({SchemaFile} \cup Resource) /\ queue' = Append(queue, p)
  BY DEF Notify, Inv, TypeOK
<1>2. /\ Len(queue') = Len(queue) + 1 /\ queue'[Len(queue) + 1] = p
      /\ \A i \in 1..Len(queue) : queue'[i] = queue[i]
  BY <1>1, AppendProperties
<1>3. Len(queue) \in Nat
  BY <1>1
<1>4. Due(p)'
  BY <1>2, <1>3 DEF Due
<1>5. ASSUME NEW q, Due(q)
      PROVE  Due(q)'
  <2>1. PICK i \in 1..Len(queue) : queue[i] = q
    BY <1>5 DEF Due
  <2>2. i \in 1..Len(queue') /\ queue'[i] = q
    BY <1>2, <1>3, <2>1
  <2> QED
    BY <2>2 DEF Due
<1>6. ASSUME NEW q, Due(q)'
      PROVE  Due(q) \/ q = p
  BY <1>2, <1>3, <1>6 DEF Due
<1> QED
  BY <1>4, <1>5, <1>6 DEF Reported

\* The watcher takes the first report.
LEMMA TakingOne ==
    ASSUME Inv, queue # <<>>, queue' = Tail(queue)
    PROVE  /\ Head(queue) \in {SchemaFile} \cup Resource
           /\ Due(Head(queue))
           /\ \A p : Due(p) => Due(p)' \/ p = Head(queue)
           /\ \A p : Due(p)' => Due(p)
<1>1. queue \in Seq({SchemaFile} \cup Resource)
  BY DEF Inv, TypeOK
<1>2. /\ Head(queue) \in {SchemaFile} \cup Resource /\ Head(queue) = queue[1]
      /\ Len(queue') = Len(queue) - 1 /\ Len(queue) \in Nat \ {0}
      /\ \A i \in 1..Len(queue') : queue'[i] = queue[i + 1]
  BY <1>1, HeadTailProperties, EmptySeq
<1>3. ASSUME NEW p, Due(p), p # Head(queue)
      PROVE  Due(p)'
  <2>1. PICK i \in 1..Len(queue) : queue[i] = p
    BY <1>3 DEF Due
  <2>2. i # 1
    BY <1>2, <1>3, <2>1
  <2>3. i - 1 \in 1..Len(queue') /\ queue'[i - 1] = p
    BY <1>2, <2>1, <2>2
  <2> QED
    BY <2>3 DEF Due
<1>4. ASSUME NEW p, Due(p)'
      PROVE  Due(p)
  <2>1. PICK i \in 1..Len(queue') : queue'[i] = p
    BY <1>4 DEF Due
  <2>2. i + 1 \in 1..Len(queue) /\ queue[i + 1] = p
    BY <1>2, <2>1
  <2> QED
    BY <2>2 DEF Due
<1>5. Due(Head(queue))
  BY <1>2 DEF Due
<1> QED
  BY <1>2, <1>3, <1>4, <1>5

LEMMA NothingDue ==
    ASSUME queue = <<>>
    PROVE  \A p : ~Due(p)
  BY EmptySeq DEF Due

LEMMA QueueStays ==
    ASSUME UNCHANGED queue
    PROVE  Reported
  BY DEF Reported, Due

LEMMA NotifyAddsOne ==
    ASSUME Inv, NEW p \in {SchemaFile} \cup Resource, Notify(p)
    PROVE  \A q : Due(q)' => Due(q) \/ q = p
<1>1. CASE WatcherRunning
  BY <1>1, NotifyAdds
<1>2. CASE ~WatcherRunning
  BY <1>2 DEF Notify, Due
<1> QED
  BY <1>1, <1>2

-----------------------------------------------------------------------------
(***************************************************************************)
(* The server's own watcher: it handles the writes of the handlers like    *)
(* everybody's, with none of the locks.                                    *)
(***************************************************************************)

\* It reads a changed file, and caches what it read some steps later,
\* whatever is in the cache by then.  No write comes between the two: what it
\* caches is still in the file.
WatcherCachesFile ==
    RefreshCache => SchemaTouched \/ watcher.value \in {NoValue, disk[watcher.path]}
CachesFile == [][WatcherCachesFile]_vars

\* Every file the watcher may come to read can be read, and has a value once
\* it was.
Readable(p) == p = SchemaFile \/ (p \in Resource /\ disk[p] \in Snapshot)
WatchInv ==
    /\ edits = {}
    /\ \A t \in Task : task[t].pc # "idle" => task[t].req.op \notin SetOps
    /\ \A p : Due(p) => Readable(p)
    /\ watcher.pc # "waiting" => Readable(watcher.path)
    /\ watcher.pc # "evict"
    /\ watcher.pc \in {"decide", "infer", "install", "cache"}
           => watcher.path = SchemaFile \/ watcher.value # NoValue

\* The handlers report files that can be read, and leave them so.
LEMMA HandleKeepsWatch ==
    ASSUME Inv, WatchInv, NEW t \in Task, Handle(t), UNCHANGED <<watcher, edits>>
    PROVE  WatchInv'
<1>1. GoesOn(t, task[t].pc)
  BY HandleGoesOn
<1>2. \A u \in Task : task'[u].pc # "idle" => task'[u].req.op \notin SetOps
  BY <1>1 DEF GoesOn, OthersStay, Flow, WatchInv
<1>3. ASSUME NEW content, WritesFile(t, content)
      PROVE  \E r \in Resource :
                 disk' = [disk EXCEPT ![r] = content] /\ Notify(r) /\ content \in Snapshot
  <2>1. task[t].pc = "persist" /\ content = task[t].value
    BY <1>3, TaskFacts DEF WritesFile, WatchInv, TaskInv, Allowed, SetPC, Op
  <2>2. task[t].value \in Snapshot /\ Res(t) \in Resource
    BY <2>1, WriterFacts DEF UpdatePC
  <2> QED
    BY <1>3, <2>1, <2>2 DEF WritesFile
<1>4. ASSUME NEW p
      PROVE  /\ Readable(p) => Readable(p)'
             /\ Due(p)' => Due(p) \/ Readable(p)'
  <2>1. CASE LeavesFiles(t)
    BY <2>1, NotifyAddsOne DEF LeavesFiles, Readable, Due
  <2>2. CASE \E content : WritesFile(t, content)
    <3> PICK content : WritesFile(t, content)
      BY <2>2
    <3>1. PICK r \in Resource :
              disk' = [disk EXCEPT ![r] = content] /\ Notify(r) /\ content \in Snapshot
      BY <1>3
    <3>2. \A q \in Resource : disk'[q] = IF q = r THEN content ELSE disk[q]
      BY <3>1 DEF Inv, TypeOK
    <3>3. p = r => Readable(p)'
      BY <3>1, <3>2 DEF Readable
    <3>4. Readable(p) => Readable(p)'
      BY <3>1, <3>2 DEF Readable
    <3> QED
      BY <3>1, <3>3, <3>4, NotifyAddsOne
  <2> QED
    BY <2>1, <2>2, FilesWritten
<1> QED
  BY <1>2, <1>4 DEF WatchInv

LEMMA SubmitKeepsWatch ==
    ASSUME Alone, Inv, WatchInv, NEW t \in Task, Submit(t), UNCHANGED <<watcher, edits>>
    PROVE  WatchInv'
<1>1. PICK req \in Workload[t] :
          task' = [task EXCEPT ![t].pc = FirstStep(req.op), ![t].req = req]
  BY DEF Submit
<1>2. OthersStay(t) /\ task'[t].req = req
  BY <1>1 DEF Inv, TypeOK, OthersStay, TaskState
<1>3. \A u \in Task : task'[u].pc # "idle" => task'[u].req.op \notin SetOps
  BY <1>2 DEF OthersStay, WatchInv, Alone
<1> QED
  BY <1>3 DEF Submit, storeVars, WatchInv, Readable, Due

\* A watcher that reads such files has a value to cache.
LEMMA WatchKeepsWatch ==
    ASSUME Inv, WatchInv, WatcherStep
    PROVE  WatchInv'
<1> DEFINE ValuePC == {"decide", "infer", "install", "cache"}
           Known == watcher.path = SchemaFile \/ watcher.value # NoValue
<1>1. Watch /\ UNCHANGED <<disk, task, edits>>
  BY WatchLeaves DEF WatcherStep
<1>2. \A p : Due(p)' => Due(p)
  BY <1>1, WatchLeaves, TakingOne DEF TakesEvent, Due
<1>3. \A p : Readable(p)' <=> Readable(p)
  BY <1>1 DEF Readable
<1>4. SUFFICES /\ watcher'.pc # "waiting" => Readable(watcher'.path)
               /\ watcher'.pc # "evict"
               /\ watcher'.pc \in ValuePC
                      => watcher'.path = SchemaFile \/ watcher'.value # NoValue
  BY <1>1, <1>2, <1>3 DEF WatchInv, Readable
<1>5. CASE TakeEvent
  BY <1>5, TakeEventIs, TakingOne DEF WatchInv, TakeEvent, TakesEvent
<1>6. CASE ListFails
  BY <1>6, ListFailsIs, TakingOne DEF WatchInv, ListFails, TakesEvent
<1>7. CASE watcher.pc # "waiting" /\ EndOfEvent
  BY <1>7, EndOfEventIs
<1>8. CASE watcher.pc # "waiting" /\ watcher'.pc # "waiting" /\ Remembers
  <2>1. Readable(watcher'.path) /\ watcher'.path = watcher.path
    BY <1>8 DEF WatchInv, Remembers
  <2>2. CASE watcher.pc \in ValuePC /\ KeepsValue /\ watcher'.pc # "evict"
    BY <2>1, <2>2 DEF WatchInv, KeepsValue
  <2>3. CASE watcher'.pc \notin ValuePC \cup {"evict"}
    BY <2>1, <2>3
  <2>4. CASE ReadPrevious
    BY <2>3, <2>4, ReadPreviousIs
  <2>5. CASE LoadSchema
    BY <2>3, <2>5, LoadSchemaIs
  <2>6. CASE ReplaceOverlay
    BY <2>3, <2>6, ReplaceOverlayIs
  <2>7. CASE PublishResources
    BY <2>1, <2>3, <2>7, PublishIs DEF SchemaTouched
  <2>8. CASE ChangedExists
    <3>1. watcher.pc = "exists" /\ watcher.path \in Resource
      BY <2>8, WatcherFacts DEF ChangedExists, WatcherAt, WatcherInv
    <3>2. disk[watcher.path] # Absent
      BY <2>1, <3>1, AbsentAssumption, SchemaFileAssumption DEF Readable
    <3>3. watcher'.pc = "read"
      BY <2>8, <3>2, WatcherGotoIs DEF ChangedExists
    <3> QED
      BY <2>3, <3>3
  <2>9. CASE ReadChanged
    <3>1. watcher.pc = "read" /\ watcher.path \in Resource
      BY <2>9, WatcherFacts DEF ReadChanged, WatcherAt, WatcherInv
    <3>2. disk[watcher.path] \in Snapshot
      BY <2>1, <3>1, SchemaFileAssumption DEF Readable
    <3> QED
      BY <2>1, <2>9, <3>2, ReadChangedIs, NoValueAssumption
  <2>10. CASE EvictBroken
    BY <2>10 DEF EvictBroken, WatcherAt, WatchInv
  <2>11. CASE DecideInference
    BY <2>2, <2>11, DecideInferenceIs
  <2>12. CASE InferFile
    BY <2>2, <2>12, InferFileIs
  <2>13. CASE InferNothing
    BY <2>2, <2>13, WatcherGotoIs DEF InferNothing, WatcherAt
  <2>14. CASE InstallTables
    BY <2>2, <2>14, WatcherGotoIs DEF InstallTables, WatcherAt
  <2>15. CASE SkipInstall
    BY <2>2, <2>15, WatcherGotoIs DEF SkipInstall, WatcherAt
  <2>16. CASE RefreshCache
    BY <1>8, <2>3, <2>16, WatcherGotoIs, EndOfEventIs DEF RefreshCache
  <2> QED
    BY <1>1, <1>5, <1>6, <1>8, <2>4, <2>5, <2>6, <2>7, <2>8, <2>9, <2>10, <2>11, <2>12, <2>13,
       <2>14, <2>15, <2>16, EndOfEventIs
    DEF Watch, GiveUp, WatcherMarksReady
<1> QED
  BY <1>1, <1>5, <1>6, <1>7, <1>8, WatchGoesOn

\* A server that has just started.
LEMMA InitWatch ==
    ASSUME Alone, Init
    PROVE  WatchInv
  BY EmptySeq DEF Init, Alone, WatchInv, WaitingWatcher, IdleTask, Due

\* Whatever requests there are, the watcher finds files it can read.
LEMMA WatchInvariance ==
    ASSUME Alone
    PROVE  Spec => []WatchInv
<1>1. Init => WatchInv
  BY InitWatch
<1>2. Inv /\ WatchInv /\ [Next]_vars => WatchInv'
  <2> SUFFICES ASSUME Inv, WatchInv, [Next]_vars
               PROVE  WatchInv'
    OBVIOUS
  <2>1. CASE \E t \in Task : RequestStep(t)
    BY <2>1, SubmitKeepsWatch, HandleKeepsWatch DEF RequestStep
  <2>2. CASE WatcherStep
    BY <2>2, WatchKeepsWatch
  <2>3. CASE ExternalEdit
    BY <2>3 DEF ExternalEdit, WatchInv
  <2>4. CASE UNCHANGED vars
    BY <2>4 DEF vars, WatchInv, Readable, Due
  <2> QED
    BY <2>1, <2>2, <2>3, <2>4 DEF Next, Rest
<1> QED
  BY <1>1, <1>2, Invariance, PTL DEF Spec

\* What is not touched is as it was.
LEMMA FolderStays ==
    ASSUME FolderInv, UNCHANGED <<disk, cache, task>>
    PROVE  FolderInv'
  BY DEF FolderInv, CacheOK, Exclusive, Coherent, StoredOK, DistinctOK, Installing,
         NoRemovers, Removed, Res, Op

\* The watcher caches what is in the file, under an address of its own.
LEMMA WatchKeepsFolder ==
    ASSUME Inv, WatchInv, FolderInv, WatcherStep, WatcherCachesFile
    PROVE  FolderInv'
<1>1. Watch /\ UNCHANGED <<disk, task>>
  BY WatchLeaves DEF WatcherStep
<1>2. CASE ~RefreshCache
  BY <1>1, <1>2, WatchLeaves, FolderStays DEF EvictBroken, WatcherAt, WatchInv
<1>3. CASE RefreshCache
  <2>1. CASE SchemaTouched
    BY <1>1, <1>3, <2>1, FolderStays DEF RefreshCache
  <2>2. CASE ~SchemaTouched
    <3> DEFINE e == [arc |-> FreshArc, value |-> watcher.value, rev |-> Unvalidated]
               r == watcher.path
    <3>1. r \in Resource /\ watcher.value # NoValue /\ watcher.value = disk[r]
      BY <1>3, <2>2, WatcherFacts
      DEF RefreshCache, WatcherAt, WatcherInv, SchemaTouched, WatchInv, WatcherCachesFile
    <3>2. cache' = [cache EXCEPT ![r] = e] /\ ArcAvailable
      BY <1>3, <2>2, <3>1 DEF RefreshCache
    <3>3. \A u \in Task : FreshArc # task[u].arc
      BY <3>2, FreshArcIsNew
    <3>4. e.arc = FreshArc /\ e.value = disk[r]
      BY <3>1
    <3>5. e # NoEntry
      BY <3>1, <3>2, WatcherFacts, FreshArcType, NoEntryAssumption DEF Entry, WatcherState
    <3> HIDE DEF e, r
    <3>6. \A q \in Resource : cache'[q] = IF q = r THEN e ELSE cache[q]
      BY <3>2 DEF Inv, TypeOK
    <3>7. ASSUME NEW u \in Task
          PROVE  TaskOK(task[u], disk, cache')
      <4>1. TaskOK(task[u], disk, cache)
        BY DEF FolderInv
      <4>2. CASE task[u].pc = "idle"
        BY <4>1, <4>2 DEF TaskOK, GuardOK, ArcOK, LoadOK, WriteOK, Carries, Loading
      <4>3. CASE task[u].pc # "idle"
        <5>1. task[u].req.res \in Resource
          BY <4>3, TaskFacts DEF Res
        <5>2. ArcOK(task[u], cache')
          BY <3>3, <3>4, <3>6, <4>1, <5>1 DEF TaskOK, ArcOK
        <5>3. LoadOK(task[u], disk, cache')
          BY <3>5, <3>6, <4>1, <5>1 DEF TaskOK, LoadOK
        <5> QED
          BY <4>1, <5>2, <5>3 DEF TaskOK
      <4> QED
        BY <4>2, <4>3
    <3>8. CacheOK'
      BY <1>1, <3>4, <3>6 DEF FolderInv, CacheOK, Installing, Res
    <3>9. Exclusive' /\ Coherent' /\ StoredOK' /\ DistinctOK'
      BY <1>1 DEF FolderInv, Exclusive, Coherent, StoredOK, DistinctOK, NoRemovers, Removed,
                  Res, Op
    <3> QED
      BY <1>1, <3>7, <3>8, <3>9 DEF FolderInv
  <2> QED
    BY <2>1, <2>2
<1> QED
  BY <1>2, <1>3

\* A server that has just started.
LEMMA InitFolder ==
    ASSUME Init
    PROVE  FolderInv
<1>1. /\ \A t \in Task : task[t] = IdleTask
      /\ \A r \in Resource : cache[r] = NoEntry
  BY DEF Init
<1>2. IdleTask.pc = "idle" /\ IdleTask.guard = "none" /\ IdleTask.req = NoRequest
  BY DEF IdleTask
<1>3. \A t \in Task : TaskOK(task[t], disk, cache)
  BY <1>1, <1>2 DEF TaskOK, GuardOK, ArcOK, LoadOK, WriteOK, Carries, Loading
<1>4. CacheOK
  BY <1>1 DEF CacheOK
<1>5. Exclusive /\ Coherent
  BY <1>1, <1>2 DEF Exclusive, Coherent, Carries
<1>6. StoredOK /\ DistinctOK
  BY <1>1, <1>2 DEF StoredOK, DistinctOK, Stored, RefreshPC
<1> QED
  BY <1>3, <1>4, <1>5, <1>6 DEF FolderInv

-----------------------------------------------------------------------------
(***************************************************************************)
(* The theorems.                                                           *)
(***************************************************************************)

\* A server that is alone with its folder keeps cache, files and what its
\* handlers carry consistent, as long as its watcher does not put back into the
\* cache what a write has replaced since.
THEOREM FolderInvariance ==
    ASSUME Alone
    PROVE  Spec /\ CachesFile => []FolderInv
<1>1. Init => FolderInv
  BY InitFolder
<1>2. Inv /\ WatchInv /\ FolderInv /\ [Next]_vars /\ [WatcherCachesFile]_vars => FolderInv'
  <2> SUFFICES ASSUME Inv, WatchInv, FolderInv, [Next]_vars, [WatcherCachesFile]_vars
               PROVE  FolderInv'
    OBVIOUS
  <2>1. CASE \E t \in Task : RequestStep(t)
    BY <2>1, SubmitStep, HandleStep DEF RequestStep
  <2>2. CASE WatcherStep /\ WatcherCachesFile
    BY <2>2, WatchKeepsFolder
  <2>3. CASE ExternalEdit
    BY <2>3 DEF ExternalEdit, WatchInv
  <2>4. CASE UNCHANGED vars
    BY <2>4, FolderStays DEF vars
  <2> QED
    BY <2>1, <2>2, <2>3, <2>4 DEF Next, Rest
<1> QED
  BY <1>1, <1>2, Invariance, WatchInvariance, PTL DEF Spec, CachesFile

\* What is cached is what is in the file, whenever nobody writes the resource:
\* load_resource may answer from the cache without opening the file.
THEOREM CacheFaithful ==
    ASSUME Alone
    PROVE  Spec /\ CachesFile => []CacheMatchesDisk
<1>1. Inv /\ FolderInv => CacheMatchesDisk
  <2> SUFFICES ASSUME Inv, FolderInv, NEW r \in Resource, cache[r] # NoEntry,
                      ~BeingWritten(r)
               PROVE  cache[r].value = disk[r]
    BY DEF CacheMatchesDisk
  <2>1. ASSUME NEW t \in Task, task[t].pc = "install", Res(t) = r
        PROVE  FALSE
    <3>1. Op(t) \in UpdateOps
      BY <2>1, TaskFacts DEF TaskInv, Allowed, UpdatePC, Op
    <3>2. task[t].guard = "write"
      BY <2>1, <3>1 DEF FolderInv, TaskOK, GuardOK, Op
    <3> QED
      BY <2>1, <3>2 DEF BeingWritten
  <2> QED
    BY <2>1 DEF FolderInv, CacheOK, Installing
<1> QED
  BY <1>1, Invariance, FolderInvariance, PTL

\* No POST that was answered is lost: mutate_resource computes every later
\* content of the file from one that has the item.
THEOREM CreatesKept ==
    ASSUME Alone
    PROVE  Spec /\ CachesFile => []NoLostCreate
<1>1. FolderInv => NoLostCreate
  BY DEF FolderInv, StoredOK, NoLostCreate, Created, Stored, At, Op
<1> QED
  BY <1>1, FolderInvariance, PTL

\* No two POSTs answer with the same id: next_item_id counts from what the
\* file holds when its result is written.
THEOREM IdsDistinct ==
    ASSUME Alone
    PROVE  Spec /\ CachesFile => []DistinctIds
<1>1. FolderInv => DistinctIds
  BY DEF FolderInv, DistinctOK, NoRemovers, DistinctIds, Created, Stored, At, Op
<1> QED
  BY <1>1, FolderInvariance, PTL

\* Without a watcher (start_resource_watcher got no OS watch) nothing is
\* reported, and nothing that a watcher might cache.
Idling == queue = <<>> /\ watcher.pc = "waiting"

LEMMA IdleWatcher ==
    ASSUME Idling
    PROVE  ~Watch
  BY DEF Idling, Watch, WatcherAt, TakeEvent, ListFails, TakesEvent, ReadPrevious, LoadSchema,
         ReplaceOverlay, PublishResources, ChangedExists, ReadChanged, EvictBroken, GiveUp,
         DecideInference, InferFile, InferNothing, InstallTables, SkipInstall, RefreshCache,
         WatcherMarksReady

LEMMA IdlingInvariance ==
    ASSUME ~WatcherRunning
    PROVE  Spec => []Idling
<1>1. Init => Idling
  BY DEF Init, WaitingWatcher, Idling
<1>2. Inv /\ Idling /\ [Next]_vars => Idling'
  <2> SUFFICES ASSUME Inv, Idling, [Next]_vars
               PROVE  Idling'
    OBVIOUS
  <2>1. ASSUME NEW t \in Task, RequestStep(t)
        PROVE  Idling'
    <3>1. CASE Submit(t)
      BY <2>1, <3>1 DEF RequestStep, Submit, storeVars, Idling
    <3>2. CASE Handle(t)
      BY <2>1, <3>2, FilesWritten DEF RequestStep, LeavesFiles, WritesFile, Notify, Idling
    <3> QED
      BY <2>1, <3>1, <3>2 DEF RequestStep
  <2>2. CASE WatcherStep
    BY <2>2, IdleWatcher DEF WatcherStep
  <2>3. CASE ExternalEdit
    BY <2>3 DEF ExternalEdit, Notify, Idling
  <2>4. CASE UNCHANGED vars
    BY <2>4 DEF vars, Idling
  <2> QED
    BY <2>1, <2>2, <2>3, <2>4 DEF Next, Rest
<1> QED
  BY <1>1, <1>2, Invariance, PTL DEF Spec

LEMMA Unwatched ==
    ASSUME ~WatcherRunning
    PROVE  Spec => CachesFile
<1>1. Idling => WatcherCachesFile
  BY DEF Idling, WatcherCachesFile, RefreshCache, WatcherAt
<1> QED
  BY <1>1, IdlingInvariance, PTL DEF Spec, CachesFile

\* Such a server keeps all three promises, however its requests interleave.
COROLLARY UnwatchedFolder ==
    ASSUME Alone, ~WatcherRunning
    PROVE  Spec => [](CacheMatchesDisk /\ NoLostCreate /\ DistinctIds)
<1> QED
  BY Unwatched, CacheFaithful, CreatesKept, IdsDistinct, PTL

-----------------------------------------------------------------------------
(***************************************************************************)
(* The folder implements the atomic store.                                 *)
(*                                                                         *)
(* A locked request and the file of its resource: the content on which an  *)
(* update was computed is the one that its rename replaces, and what a     *)
(* read was given is the content of the file, because the lock keeps every *)
(* writer of the file away between the two.                                *)
(***************************************************************************)

\* Nobody but the server changes the folder, and no write is made whose success
\* is not reported.  The server's own watcher may run.
Undisturbed == Edits = {} /\ "sync" \notin Faults

\* There are no reads without the lock, which may put back into the cache what
\* a deletion took out of it.
NoBareReads == \A t \in Task : \A req \in Workload[t] : req.op # "relation_read"

\* No watcher publishes what it finds in the folder, and the server could read
\* all of it when it started: every resource has a file of whole content.
Untold == ~WatcherRunning /\ InitialReady

\* A handler between its first step under the lock and its answer.
Serving(w) == w.pc \notin {"idle", "validate", "acquire", "done"}

\* The steps that only one kind of request takes.
CreatePC == {"create", "fill", "register", "cache_new"}
DeletePC == {"remove", "unregister", "uncache"}

\* What a handler may do without a lock, and with which one.
LockOK(w) ==
    /\ w.pc \in CreatePC => w.req.op = "create_resource"
    /\ w.pc \in DeletePC => w.req.op = "delete_resource"
    /\ w.pc = "idle" => w.guard = "none"
    /\ w.pc # "idle" /\ w.req.op \notin LockedOps => w.guard = "none"
    /\ w.pc = "acquire" => w.req.op \in LockedOps
    /\ Serving(w) /\ w.req.op = "read" => w.guard # "none"
    /\ Serving(w) /\ w.req.op \in UpdateOps \cup SetOps => w.guard = "write"
    /\ w.pc # "idle" /\ NoBareReads => w.req.op # "relation_read"

\* What a handler that has the lock knows of the file.
FileOK(w, d, s) ==
    w.guard # "none" =>
        /\ NeedsSnapshot(w.req.op, w.pc) /\ w.pc \notin {"readiness", "persist"}
               => w.value = d[w.req.res]
        /\ w.pc \in {"readiness", "persist"} =>
               /\ d[w.req.res] \in Snapshot
               /\ CanUpdate(w.req, d[w.req.res])
               /\ w.value = Updated(w.req, d[w.req.res])
        /\ w.pc = "fill" => d[w.req.res] = Garbage
        /\ w.pc \in {"register", "cache_new"} => d[w.req.res] = w.req.doc
        /\ Untold /\ w.pc = "remove" => w.req.res \in s

\* A file and the cached snapshot, a file and the set of resources, differ
\* while a writer is between the two.
BusyAt(r, P) == \E t \in Task : task[t].pc \in P /\ Res(t) = r
UpdatingPC == {"install", "unregister", "uncache"}
ResourceOK(r) ==
    /\ cache[r] # NoEntry /\ ~BusyAt(r, UpdatingPC) => cache[r].value = disk[r]
    /\ Untold /\ r \in resources /\ ~BusyAt(r, {"unregister"}) => disk[r] \in Snapshot

LockInv ==
    /\ \A t \in Task : LockOK(task[t]) /\ FileOK(task[t], disk, resources)
    /\ Exclusive
    /\ \A r \in Resource : ResourceOK(r)

\* A step of a request that has arrived.
Moves(t) ==
    /\ OthersStay(t)
    /\ task[t].pc # "idle" /\ task'[t].pc # "idle"
    /\ task'[t].req = task[t].req
    /\ task'[t].guard \in {"none", task[t].guard}

OnlyAt(r0) ==
    \A r \in Resource \ {r0} :
        /\ disk'[r] = disk[r] /\ cache'[r] = cache[r]
        /\ r \in resources' <=> r \in resources

\* Such a step keeps the invariant if it keeps it of its own resource.
LEMMA LockedStep ==
    ASSUME Inv, LockInv, NEW t \in Task, Moves(t), OnlyAt(Res(t)),
           LockOK(task'[t]), FileOK(task'[t], disk', resources'),
           task[t].guard = "write" \/ UNCHANGED <<disk, resources>>,
           \A r \in Resource : r = Res(t) => ResourceOK(r)'
    PROVE  LockInv'
<1>1. Exclusive'
  <2> SUFFICES ASSUME NEW v \in Task, NEW u \in Task, v # u,
                      task'[v].guard = "write", task'[u].guard # "none"
               PROVE  task'[v].req.res # task'[u].req.res
    BY DEF Exclusive, Res
  <2>1. /\ task'[v].req = task[v].req /\ task'[v].guard \in {"none", task[v].guard}
        /\ task'[u].req = task[u].req /\ task'[u].guard \in {"none", task[u].guard}
    BY DEF Moves, OthersStay
  <2> QED
    BY <2>1 DEF LockInv, Exclusive, Res
<1>2. ASSUME NEW u \in Task
      PROVE  LockOK(task'[u]) /\ FileOK(task'[u], disk', resources')
  <2>1. CASE u = t
    BY <2>1
  <2>2. CASE u # t
    <3>1. task'[u] = task[u] /\ LockOK(task[u]) /\ FileOK(task[u], disk, resources)
      BY <2>2 DEF Moves, OthersStay, LockInv
    <3>2. CASE task[u].guard = "none"
      BY <3>1, <3>2 DEF FileOK
    <3>3. CASE task[u].guard # "none"
      <4>1. task[u].pc # "idle"
        BY <3>1, <3>3 DEF LockOK
      <4>2. Res(u) \in Resource
        BY <4>1, TaskFacts
      <4>3. /\ disk'[Res(u)] = disk[Res(u)]
            /\ Res(u) \in resources' <=> Res(u) \in resources
        <5>1. CASE Res(u) # Res(t)
          BY <4>2, <5>1 DEF OnlyAt
        <5>2. CASE Res(u) = Res(t)
          <6>1. task[t].guard # "write"
            BY <2>2, <3>3, <5>2 DEF LockInv, Exclusive
          <6> QED
            BY <6>1
        <5> QED
          BY <5>1, <5>2
      <4> QED
        BY <3>1, <4>3 DEF FileOK, Res
    <3> QED
      BY <3>2, <3>3
  <2> QED
    BY <2>1, <2>2
<1>3. ASSUME NEW r \in Resource
      PROVE  ResourceOK(r)'
  <2>1. CASE r # Res(t)
    <3>1. \A P : BusyAt(r, P) => BusyAt(r, P)'
      BY <2>1 DEF BusyAt, Moves, OthersStay, Res
    <3>2. ResourceOK(r) /\ disk'[r] = disk[r] /\ cache'[r] = cache[r]
          /\ (r \in resources' <=> r \in resources)
      BY <2>1 DEF LockInv, OnlyAt
    <3> QED
      BY <3>1, <3>2 DEF ResourceOK
  <2> QED
    BY <2>1
<1> QED
  BY <1>1, <1>2, <1>3 DEF LockInv, Moves

\* Who has a lock knows that nobody is updating the resource.
LEMMA NobodyElse ==
    ASSUME Inv, LockInv, NEW t \in Task, task[t].guard # "none",
           NEW u \in Task, u # t, task[u].pc \in UpdatingPC, Res(u) = Res(t)
    PROVE  FALSE
<1>1. task[u].req.op \in UpdateOps \cup SetOps
  BY TaskFacts DEF TaskInv, Allowed, UpdatePC, SetPC, UpdatingPC
<1>2. task[u].guard = "write"
  BY <1>1 DEF LockInv, LockOK, Serving, UpdatingPC
<1> QED
  BY <1>2 DEF LockInv, Exclusive

\* A step that leaves files, cache and resources alone.
LEMMA QuietLock ==
    ASSUME Inv, LockInv, NEW t \in Task, Moves(t), UNCHANGED <<disk, cache, resources>>,
           task[t].pc \notin UpdatingPC,
           LockOK(task'[t]), FileOK(task'[t], disk, resources)
    PROVE  LockInv'
<1>1. ASSUME NEW r \in Resource
      PROVE  ResourceOK(r)'
  <2>1. \A P : BusyAt(r, P) /\ task[t].pc \notin P => BusyAt(r, P)'
    BY DEF BusyAt, Moves, OthersStay, Res
  <2>2. BusyAt(r, UpdatingPC) => BusyAt(r, UpdatingPC)'
    BY <2>1
  <2>3. BusyAt(r, {"unregister"}) => BusyAt(r, {"unregister"})'
    BY <2>1 DEF UpdatingPC
  <2> QED
    BY <2>2, <2>3 DEF LockInv, ResourceOK
<1> QED
  BY <1>1, LockedStep DEF OnlyAt

\* A step that caches the content of the file, or takes it out of the cache,
\* or leaves the cache as it is.
LEMMA CachingLock ==
    ASSUME Inv, LockInv, NEW t \in Task, Moves(t), UNCHANGED <<disk, resources>>,
           task[t].guard # "none", task[t].pc # "unregister",
           \/ cache' = cache /\ task[t].pc \notin UpdatingPC
           \/ \E e \in {NoEntry} \cup Entry :
                  /\ cache' = [cache EXCEPT ![Res(t)] = e]
                  /\ e # NoEntry => e.value = disk[Res(t)],
           LockOK(task'[t]), FileOK(task'[t], disk, resources)
    PROVE  LockInv'
<1>1. CASE cache' = cache /\ task[t].pc \notin UpdatingPC
  BY <1>1, QuietLock
<1>2. ASSUME NEW e \in {NoEntry} \cup Entry, cache' = [cache EXCEPT ![Res(t)] = e],
             e # NoEntry => e.value = disk[Res(t)]
      PROVE  LockInv'
  <2>1. task[t].pc # "idle" /\ Res(t) \in Resource
    BY TaskFacts DEF Moves
  <2>2. \A r \in Resource : cache'[r] = IF r = Res(t) THEN e ELSE cache[r]
    BY <1>2 DEF Inv, TypeOK
  <2>3. ASSUME NEW r \in Resource, r = Res(t)
        PROVE  ResourceOK(r)'
    <3>1. BusyAt(r, {"unregister"}) => BusyAt(r, {"unregister"})'
      BY DEF BusyAt, Moves, OthersStay, Res
    <3> QED
      BY <1>2, <2>2, <2>3, <3>1 DEF LockInv, ResourceOK
  <2>4. OnlyAt(Res(t))
    BY <2>2 DEF OnlyAt
  <2> QED
    BY <2>3, <2>4, LockedStep
<1> QED
  BY <1>1, <1>2

-----------------------------------------------------------------------------
\* The steps of the atomic store.

Contents == [r \in Resource |-> IF disk[r] \in Snapshot THEN disk[r] ELSE Absent]
AtomicRequest(w) == IF Locking(w) THEN Promised(w.req) ELSE NoRequest
Requests == [t \in Task |-> AtomicRequest(task[t])]
States == [t \in Task |-> AtomicStatus(task[t])]
Answers == [t \in Task |-> Answer(task[t])]

AtomicStep == [Promise!Next]_(Promise!vars)

\* A step of t is one of its atomic request.
LEMMA OneMoves ==
    ASSUME NEW t \in Task, OthersStay(t)
    PROVE  /\ States' = [States EXCEPT ![t] = AtomicStatus(task'[t])]
           /\ Requests' = [Requests EXCEPT ![t] = AtomicRequest(task'[t])]
           /\ Answers' = [Answers EXCEPT ![t] = Answer(task'[t])]
  BY DEF OthersStay, States, Requests, Answers

\* A step that is none of the atomic store.
LEMMA Hidden ==
    ASSUME NEW t \in Task, OthersStay(t), Contents' = Contents,
           AtomicStatus(task'[t]) = AtomicStatus(task[t]),
           AtomicRequest(task'[t]) = AtomicRequest(task[t]),
           Answer(task'[t]) = Answer(task[t])
    PROVE  AtomicStep
<1>1. /\ States' = States /\ Requests' = Requests /\ Answers' = Answers
  BY OneMoves DEF States, Requests, Answers
<1>2. UNCHANGED Promise!vars
  BY <1>1 DEF Promise!vars, Contents, Requests, States, Answers, AtomicRequest
<1> QED
  BY <1>2 DEF AtomicStep

\* A step on the way changes nothing but the status.
LEMMA StatusStep ==
    ASSUME NEW t \in Task, OthersStay(t), Contents' = Contents,
           AtomicRequest(task'[t]) = AtomicRequest(task[t]),
           Answer(task'[t]) = Answer(task[t]),
           \/ AtomicStatus(task[t]) = "applied" /\ AtomicStatus(task'[t]) = "ok"
           \/ /\ AtomicStatus(task[t]) \in {"waiting", "applied"}
              /\ AtomicStatus(task'[t]) = "failed"
    PROVE  AtomicStep
<1>1. /\ States' = [States EXCEPT ![t] = AtomicStatus(task'[t])]
      /\ Requests' = Requests /\ Answers' = Answers
      /\ States[t] = AtomicStatus(task[t])
  BY OneMoves DEF States, Requests, Answers
<1>2. CASE AtomicStatus(task[t]) = "applied" /\ AtomicStatus(task'[t]) = "ok"
  <2>1. Promise!Confirm(t)
    BY <1>1, <1>2 DEF Promise!Confirm, Contents, Requests, States, Answers, AtomicRequest
  <2> QED
    BY <2>1 DEF AtomicStep, Promise!Next
<1>3. CASE /\ AtomicStatus(task[t]) \in {"waiting", "applied"}
           /\ AtomicStatus(task'[t]) = "failed"
  <2>1. Promise!Fail(t)
    BY <1>1, <1>3
    DEF Promise!Fail, Promise!InFlight, Contents, Requests, States, Answers, AtomicRequest
  <2> QED
    BY <2>1 DEF AtomicStep, Promise!Next
<1> QED
  BY <1>2, <1>3

\* What the status and the answer of a request are.
LEMMA StatusOf ==
    ASSUME NEW w
    PROVE  /\ ~Locking(w) => AtomicStatus(w) = "idle"
           /\ Locking(w) /\ w.pc = "done" =>
                  AtomicStatus(w) = IF w.status = "ok" THEN "ok" ELSE "failed"
           /\ Locking(w) /\ w.pc \in WrittenPC => AtomicStatus(w) = "applied"
           /\ Locking(w) /\ w.pc \notin WrittenPC \cup {"done"} => AtomicStatus(w) = "waiting"
<1>1. "done" \notin WrittenPC
  BY DEF WrittenPC
<1> QED
  BY <1>1 DEF AtomicStatus

\* Only a read that was answered carries a document.
LEMMA AnswerOf ==
    ASSUME NEW w, \/ w.pc # "done" \/ w.status # "ok" \/ w.req.op # "read"
    PROVE  Answer(w) = [r \in Resource |-> Absent]
  BY DEF Answer

\* A request that goes on.
LEMMA OnTheWay ==
    ASSUME NEW t \in Task, Moves(t), Contents' = Contents,
           task[t].pc # "done", task'[t].pc # "done",
           Locking(task[t]) => (task[t].pc \in WrittenPC <=> task'[t].pc \in WrittenPC)
    PROVE  AtomicStep
<1>1. OthersStay(t) /\ task'[t].req = task[t].req
  BY DEF Moves
<1>2. Locking(task'[t]) <=> Locking(task[t])
  BY DEF Moves, Locking
<1>3. AtomicStatus(task'[t]) = AtomicStatus(task[t])
  BY <1>2, StatusOf
<1>4. AtomicRequest(task'[t]) = AtomicRequest(task[t])
  BY <1>1, <1>2 DEF AtomicRequest
<1>5. Answer(task'[t]) = Answer(task[t])
  BY AnswerOf
<1> QED
  BY <1>1, <1>3, <1>4, <1>5, Hidden

\* What a finished request must satisfy.
LEMMA DoneLocked ==
    ASSUME LockInv, NEW t \in Task, task[t].pc # "idle",
           NEW w, w.pc = "done", w.req = task[t].req, w.guard = "none", NEW d, NEW s
    PROVE  LockOK(w) /\ FileOK(w, d, s)
  BY DEF LockInv, LockOK, FileOK, Serving, CreatePC, DeletePC

\* A request fails; its locks are free, and the file is as it was.
LEMMA FailLock ==
    ASSUME Inv, LockInv, NEW t \in Task, task[t].pc \notin {"idle", "done"} \cup UpdatingPC,
           Fail(t), UNCHANGED <<disk, cache, resources>>
    PROVE  LockInv' /\ AtomicStep
<1> DEFINE w == [IdleTask EXCEPT !.pc = "done", !.req = task[t].req, !.status = "error"]
<1>1. task'[t] = w /\ OthersStay(t)
  BY DEF Fail, Inv, TypeOK, OthersStay
<1>2. w.pc = "done" /\ w.req = task[t].req /\ w.guard = "none" /\ w.status = "error"
  BY IdleTaskType DEF IdleTask
<1> HIDE DEF w
<1>3. Moves(t)
  BY <1>1, <1>2 DEF Moves
<1>4. LockInv'
  BY <1>1, <1>2, <1>3, DoneLocked, QuietLock
<1>5. Locking(w) <=> Locking(task[t])
  BY <1>2 DEF Locking
<1>6. /\ AtomicRequest(w) = AtomicRequest(task[t])
      /\ Answer(w) = Answer(task[t])
      /\ Contents' = Contents
  BY <1>2, <1>5, AnswerOf DEF AtomicRequest, Contents
<1>7. CASE Locking(task[t])
  <2>1. AtomicStatus(task[t]) \in {"waiting", "applied"} /\ AtomicStatus(w) = "failed"
    BY <1>2, <1>5, <1>7, StatusOf
  <2> QED
    BY <1>1, <1>4, <1>6, <2>1, StatusStep
<1>8. CASE ~Locking(task[t])
  <2>1. AtomicStatus(task[t]) = AtomicStatus(w)
    BY <1>5, <1>8, StatusOf
  <2> QED
    BY <1>1, <1>4, <1>6, <2>1, Hidden
<1> QED
  BY <1>7, <1>8

\* Steps on which a request only goes on, and those of them that come after
\* its write.
EarlySteps ==
    {<<"revision", "lookup">>, <<"lookup", "registered">>, <<"registered", "open">>,
     <<"admit", "mark">>, <<"readiness", "persist">>,
     <<"merge", "truncate">>, <<"truncate", "write_schema">>, <<"write_schema", "adopt">>}
LateSteps ==
    {<<"infer", "certify">>, <<"snapshot", "scan">>, <<"scan", "scan">>,
     <<"scan", "mark_ready">>, <<"mark_ready", "certify">>, <<"mark_ready", "announce">>,
     <<"adopt", "announce">>}

\* A step that changes nothing that the store is made of.
LEMMA GoesOnAtomic ==
    ASSUME Inv, LockInv, NEW t \in Task, NEW w, task'[t] = w, OthersStay(t),
           w.req = task[t].req, w.guard = task[t].guard, w.value = task[t].value,
           <<task[t].pc, w.pc>> \in EarlySteps \cup LateSteps,
           w.pc = "certify" => Op(t) \in UpdateOps,
           UNCHANGED <<disk, cache, resources>>
    PROVE  LockInv' /\ AtomicStep
<1>1. /\ task[t].pc \notin {"idle", "validate", "acquire", "done"} \cup UpdatingPC
      /\ w.pc \notin {"idle", "validate", "acquire", "done"}
      /\ w.pc \notin {"readiness"} \cup CreatePC \cup DeletePC
  BY DEF EarlySteps, LateSteps, UpdatingPC, CreatePC, DeletePC
<1>2. Moves(t)
  BY <1>1 DEF Moves
<1>3. LockOK(task[t]) /\ FileOK(task[t], disk, resources)
  BY DEF LockInv
<1>4. LockOK(w)
  BY <1>1, <1>3 DEF LockOK, Serving
<1>5. FileOK(w, disk, resources)
  <2>1. NeedsSnapshot(w.req.op, w.pc) /\ w.pc \notin {"readiness", "persist"}
            => /\ NeedsSnapshot(w.req.op, task[t].pc)
               /\ task[t].pc \notin {"readiness", "persist"}
    BY DEF EarlySteps, LateSteps, NeedsSnapshot, UpdatePC, RefreshPC, Op
  <2>2. w.pc = "persist" => task[t].pc = "readiness"
    BY DEF EarlySteps, LateSteps
  <2> QED
    BY <1>1, <1>3, <2>1, <2>2 DEF FileOK, CreatePC, DeletePC
<1>6. LockInv'
  BY <1>1, <1>2, <1>4, <1>5, QuietLock
<1>7. Locking(task[t]) => (task[t].pc \in WrittenPC <=> w.pc \in WrittenPC)
  <2>1. task[t].pc = "adopt" => ~Locking(task[t])
    BY TaskFacts
    DEF TaskInv, Allowed, PutPC, Locking, LockedOps, UpdateOps, ItemOps, ObjectOps, SetOps
  <2> QED
    BY <2>1 DEF EarlySteps, LateSteps, WrittenPC
<1>8. Contents' = Contents
  BY DEF Contents
<1>9. AtomicStep
  BY <1>1, <1>2, <1>7, <1>8, OnTheWay
<1> QED
  BY <1>6, <1>9

\* In particular those that change nothing but the program counter.
LEMMA GoesToAtomic ==
    ASSUME Inv, LockInv, NEW t \in Task, NEW pc, Goto(t, pc),
           <<task[t].pc, pc>> \in EarlySteps \cup LateSteps,
           pc = "certify" => Op(t) \in UpdateOps,
           UNCHANGED <<disk, cache, resources>>
    PROVE  LockInv' /\ AtomicStep
<1> DEFINE w == [task[t] EXCEPT !.pc = pc]
<1>1. task'[t] = w /\ OthersStay(t)
  BY DEF Goto, Inv, TypeOK, OthersStay
<1>2. /\ w.pc = pc /\ w.req = task[t].req /\ w.guard = task[t].guard
      /\ w.value = task[t].value
  BY TaskFacts DEF TaskState
<1> HIDE DEF w
<1> QED
  BY <1>1, <1>2, GoesOnAtomic

-----------------------------------------------------------------------------
\* The actions.

\* A request arrives; those that take no lock are not seen.
LEMMA SubmitAtomic ==
    ASSUME Inv, LockInv, NEW t \in Task, Submit(t)
    PROVE  LockInv' /\ AtomicStep
<1>1. /\ task[t].pc = "idle" /\ task[t] \in TaskState
      /\ UNCHANGED <<disk, cache, resources>>
  BY TaskFacts DEF Submit, At, storeVars
<1>2. PICK req \in Workload[t] :
          task' = [task EXCEPT ![t].pc = FirstStep(req.op), ![t].req = req]
  BY DEF Submit
<1> DEFINE w == [task[t] EXCEPT !.pc = FirstStep(req.op), !.req = req]
<1>3. task'[t] = w /\ OthersStay(t)
  BY <1>2 DEF Inv, TypeOK, OthersStay
<1>4. w.pc = FirstStep(req.op) /\ w.req = req /\ w.guard = task[t].guard
  BY <1>1 DEF TaskState
<1>5. w.guard = "none"
  BY <1>1, <1>4 DEF LockInv, LockOK
<1>6. req \in Request /\ req.op \in Ops
  BY WorkloadAssumption DEF Request
<1> HIDE DEF w
<1>7. /\ w.pc \in {"revision", "merge", "validate", "acquire"}
      /\ w.pc = "revision" => req.op = "relation_read"
      /\ w.pc = "merge" => req.op = "put_schema"
  BY <1>4 DEF FirstStep
<1>8. LockOK(w)
  <2>1. NoBareReads => req.op # "relation_read"
    BY DEF NoBareReads
  <2>2. w.pc = "acquire" => req.op \in LockedOps
    BY <1>4, <1>6 DEF Ops, ReadOps, SetOps, LockedOps, FirstStep
  <2> QED
    BY <1>4, <1>5, <1>7, <2>1, <2>2
    DEF LockOK, Serving, CreatePC, DeletePC, UpdateOps, ItemOps, ObjectOps, SetOps
<1>9. FileOK(w, disk, resources)
  BY <1>5 DEF FileOK
<1>10. LockInv'
  <2>1. \A u \in Task : LockOK(task'[u]) /\ FileOK(task'[u], disk', resources')
    BY <1>1, <1>3, <1>8, <1>9 DEF LockInv, OthersStay
  <2>2. Exclusive'
    BY <1>3, <1>5 DEF LockInv, Exclusive, Res, OthersStay
  <2>3. \A r \in Resource : ResourceOK(r)'
    <3>1. \A r, P : BusyAt(r, P) /\ "idle" \notin P => BusyAt(r, P)'
      BY <1>1, <1>3 DEF BusyAt, Res, OthersStay
    <3>2. \A r : /\ BusyAt(r, UpdatingPC) => BusyAt(r, UpdatingPC)'
                 /\ BusyAt(r, {"unregister"}) => BusyAt(r, {"unregister"})'
      BY <3>1 DEF UpdatingPC
    <3> QED
      BY <1>1, <3>2 DEF LockInv, ResourceOK
  <2> QED
    BY <1>1, <2>1, <2>2, <2>3 DEF LockInv
<1>11. AtomicStep
  <2>1. Contents' = Contents
    BY <1>1 DEF Contents
  <2>2. ~Locking(task[t]) /\ AtomicStatus(task[t]) = "idle"
    BY <1>1, StatusOf DEF Locking
  <2>3. Answer(w) = Answer(task[t])
    BY <1>1, <1>7, AnswerOf
  <2>4. CASE ~Locking(w)
    <3>1. AtomicStatus(w) = "idle"
      BY <2>4, StatusOf
    <3> QED
      BY <1>3, <2>1, <2>2, <2>3, <2>4, <3>1, Hidden DEF AtomicRequest
  <2>5. CASE Locking(w)
    <3>1. w.pc \notin WrittenPC \cup {"done"}
      BY <1>7 DEF WrittenPC
    <3>2. AtomicStatus(w) = "waiting"
      BY <2>5, <3>1, StatusOf
    <3>3. AtomicRequest(w) = Promised(req)
      BY <1>4, <2>5 DEF AtomicRequest
    <3>4. Promised(req) \in PromisedWorkload[t]
      <4>1. req.op \in LockedOps
        BY <1>4, <2>5 DEF Locking
      <4> QED
        BY <4>1, Zenon DEF PromisedWorkload
    <3>5. /\ States' = [States EXCEPT ![t] = "waiting"] /\ States[t] = "idle"
          /\ Requests' = [Requests EXCEPT ![t] = Promised(req)]
          /\ Answers' = Answers
      BY <1>3, <2>2, <2>3, <3>2, <3>3, OneMoves DEF States, Answers
    <3>6. Promise!Arrive(t)
      BY <2>1, <3>4, <3>5
      DEF Promise!Arrive, Contents, Requests, States, Answers, AtomicRequest
    <3> QED
      BY <3>6 DEF AtomicStep, Promise!Next
  <2> QED
    BY <2>4, <2>5
<1> QED
  BY <1>10, <1>11

\* A lock is taken when nobody holds it in a way that excludes this one.
LEMMA AcquireAtomic ==
    ASSUME Inv, LockInv, NEW t \in Task, Acquire(t)
    PROVE  LockInv' /\ AtomicStep
<1> DEFINE mode == IF Op(t) = "read" THEN "read" ELSE "write"
           pc == IF Op(t) \in SetOps THEN "registered"
                 ELSE IF Op(t) \in AfterOnly THEN "lookup" ELSE "revision"
           w == [task[t] EXCEPT !.guard = mode, !.pc = pc]
<1>1. /\ task[t].pc = "acquire" /\ LockFree(t, mode) /\ task' = [task EXCEPT ![t] = w]
      /\ UNCHANGED <<disk, cache, resources>>
  BY DEF Acquire, At, storeVars
<1>2. task[t] \in TaskState /\ task'[t] = w /\ OthersStay(t)
  BY <1>1, TaskFacts DEF Inv, TypeOK, OthersStay
<1>3. w.pc = pc /\ w.guard = mode /\ w.req = task[t].req
  BY <1>2 DEF TaskState
<1>4. /\ pc \in {"registered", "lookup", "revision"}
      /\ Op(t) # "read" => mode = "write"
      /\ mode \in {"read", "write"}
  OBVIOUS
<1>5. Op(t) \in LockedOps /\ (NoBareReads => Op(t) # "relation_read")
  BY <1>1 DEF LockInv, LockOK, Op
<1> HIDE DEF w, mode, pc
<1>6. LockOK(w)
  BY <1>3, <1>4, <1>5 DEF LockOK, Serving, CreatePC, DeletePC, Op, UpdateOps, ItemOps, ObjectOps,
                         SetOps
<1>7. FileOK(w, disk, resources)
  BY <1>3, <1>4 DEF FileOK, NeedsSnapshot, UpdatePC, RefreshPC
<1>8. Exclusive'
  <2>1. \A u \in Task : u # t /\ task[u].guard # "none" /\ Res(u) = Res(t)
                            => mode # "write" /\ task[u].guard # "write"
    BY <1>1, <1>4 DEF LockFree
  <2> QED
    BY <1>2, <1>3, <2>1 DEF LockInv, Exclusive, Res, OthersStay
<1>9. \A r \in Resource : ResourceOK(r)'
  <2>1. \A r, P : BusyAt(r, P) /\ "acquire" \notin P => BusyAt(r, P)'
    BY <1>1, <1>2 DEF BusyAt, Res, OthersStay
  <2>2. \A r : /\ BusyAt(r, UpdatingPC) => BusyAt(r, UpdatingPC)'
               /\ BusyAt(r, {"unregister"}) => BusyAt(r, {"unregister"})'
    BY <2>1 DEF UpdatingPC
  <2> QED
    BY <1>1, <2>2 DEF LockInv, ResourceOK
<1>10. LockInv'
  <2>1. \A u \in Task : LockOK(task'[u]) /\ FileOK(task'[u], disk', resources')
    BY <1>1, <1>2, <1>6, <1>7 DEF LockInv, OthersStay
  <2> QED
    BY <1>1, <1>8, <1>9, <2>1 DEF LockInv
<1>11. AtomicStep
  <2>1. Locking(w) /\ Locking(task[t]) /\ AtomicRequest(w) = AtomicRequest(task[t])
    BY <1>1, <1>3, <1>4, <1>5 DEF Locking, Op, AtomicRequest
  <2>2. AtomicStatus(w) = "waiting" /\ AtomicStatus(task[t]) = "waiting"
    BY <1>1, <1>3, <1>4, <2>1, StatusOf DEF WrittenPC
  <2>3. Answer(w) = Answer(task[t]) /\ Contents' = Contents
    BY <1>1, <1>3, <1>4, AnswerOf DEF Contents
  <2> QED
    BY <1>2, <2>1, <2>2, <2>3, Hidden
<1> QED
  BY <1>10, <1>11

\* What is cached is in the file, for one who has the lock.
LEMMA HolderFinds ==
    ASSUME Inv, LockInv, NEW t \in Task, task[t].pc \notin UpdatingPC,
           task[t].guard # "none", cache[Res(t)] # NoEntry
    PROVE  cache[Res(t)].value = disk[Res(t)]
<1>1. task[t].pc # "idle"
  BY DEF LockInv, LockOK
<1>2. Res(t) \in Resource
  BY <1>1, TaskFacts
<1>3. ~BusyAt(Res(t), UpdatingPC)
  BY NobodyElse DEF BusyAt
<1> QED
  BY <1>2, <1>3 DEF LockInv, ResourceOK

\* Whoever reads under the lock, or updates, has it while it works.
LEMMA HasLock ==
    ASSUME Inv, LockInv, NEW t \in Task, Serving(task[t]), Locking(task[t])
    PROVE  task[t].guard # "none" /\ (Op(t) # "read" => task[t].guard = "write")
  BY DEF LockInv, LockOK, Locking, LockedOps, Op

\* The resources that a request is about.
LEMMA PromisedIs ==
    ASSUME NEW req
    PROVE  /\ Promised(req).op = req.op
           /\ Promise!Target(Promised(req)) = req.res
           /\ Promise!Subjects(Promised(req)) = {req.res}
<1>1. Promised(req).names = <<req.res>> /\ Promised(req).op = req.op
  BY DEF Promised
<1>2. DOMAIN <<req.res>> = {1} /\ <<req.res>>[1] = req.res
  OBVIOUS
<1> QED
  BY <1>1, <1>2 DEF Promise!Target, Promise!Subjects

\* The two modules mean the same by an update.
LEMMA SameUpdates ==
    ASSUME NEW req, NEW doc
    PROVE  /\ Promise!CanUpdate(Promised(req), doc) <=> CanUpdate(req, doc)
           /\ Promise!Updated(Promised(req), doc) = Updated(req, doc)
<1>1. Promise!NextNumericId(doc) = NextNumericId(doc)
  BY DEF Promise!NextNumericId, NextNumericId, Promise!Items, Items, Promise!Max, Max,
         Promise!Id, Id
<1>2. /\ Promised(req).op = req.op /\ Promised(req).id = req.id
      /\ Promised(req).item = req.item
  BY DEF Promised
<1>3. Promise!Position(Promised(req), doc) = Position(req, doc)
  BY <1>1, <1>2
  DEF Promise!Position, Position, Promise!Root, Root, Promise!ObjectOps, ObjectOps
<1>4. Promise!CanUpdate(Promised(req), doc) <=> CanUpdate(req, doc)
  BY <1>2, <1>3
  DEF Promise!CanUpdate, CanUpdate, Promise!IsArray, IsArray, Promise!ObjectOps,
      ObjectOps, Promise!Id, Id, Promise!ItemOps, ItemOps, Promise!Root, Root
<1>5. Promise!Updated(Promised(req), doc) = Updated(req, doc)
  BY <1>2, <1>3 DEF Promise!Updated, Updated
<1> QED
  BY <1>4, <1>5

\* A read is answered.
LEMMA ReadStep ==
    ASSUME Inv, NEW t \in Task, OthersStay(t), UNCHANGED disk,
           Locking(task[t]), Op(t) = "read", AtomicStatus(task[t]) = "waiting",
           task'[t].req = task[t].req, task'[t].pc = "done", task'[t].status = "ok",
           task'[t].value = disk[Res(t)], disk[Res(t)] \in Snapshot
    PROVE  AtomicStep
<1> DEFINE w == task'[t]
<1>1. Locking(w) /\ w.req.res = Res(t) /\ w.req.op = "read"
  BY DEF Locking, Op, Res
<1>2. AtomicStatus(w) = "ok"
  BY <1>1, StatusOf
<1>3. AtomicRequest(w) = AtomicRequest(task[t]) /\ AtomicRequest(task[t]) = Promised(task[t].req)
  BY <1>1 DEF AtomicRequest
<1>4. /\ States' = [States EXCEPT ![t] = "ok"] /\ States[t] = "waiting"
      /\ Requests' = Requests /\ Requests[t] = Promised(task[t].req)
      /\ Answers' = [Answers EXCEPT ![t] = Answer(w)]
      /\ Contents' = Contents
  BY <1>2, <1>3, OneMoves DEF States, Requests, Contents
<1>5. /\ Requests[t].op = "read"
      /\ Promise!Subjects(Requests[t]) = {Res(t)}
  BY <1>4, PromisedIs DEF Op, Res
<1>6. Res(t) \in Resource /\ Contents[Res(t)] = disk[Res(t)] /\ disk[Res(t)] # Absent
  <2>1. Res(t) \in Resource
    BY TaskFacts DEF Locking
  <2> QED
    BY <2>1, AbsentAssumption DEF Contents
<1>7. Answer(w) = [r \in Resource |->
                       IF r \in Promise!Subjects(Requests[t]) THEN Contents[r] ELSE Absent]
  BY <1>1, <1>5, <1>6 DEF Answer
<1> HIDE DEF w
<1>8. Promise!Read(t)
  BY <1>4, <1>5, <1>6, <1>7
  DEF Promise!Read, Contents, Requests, States, Answers, AtomicRequest
<1> QED
  BY <1>8 DEF AtomicStep, Promise!Next

\* A write takes effect.
LEMMA WriteStep ==
    ASSUME Inv, NEW t \in Task, Moves(t), Locking(task[t]), Op(t) # "read",
           AtomicStatus(task[t]) = "waiting", AtomicStatus(task'[t]) = "applied",
           task'[t].pc # "done", task[t].pc # "done",
           Promise!Applies(Promised(task[t].req), Contents[Res(t)]),
           Contents' = [Contents EXCEPT ![Res(t)] =
                            Promise!Effect(Promised(task[t].req), Contents[Res(t)])]
    PROVE  AtomicStep
<1>1. OthersStay(t) /\ Locking(task'[t]) /\ task'[t].req = task[t].req
  BY DEF Moves, Locking
<1>2. /\ AtomicRequest(task'[t]) = Promised(task[t].req)
      /\ AtomicRequest(task[t]) = Promised(task[t].req)
  BY <1>1 DEF AtomicRequest
<1>3. Answer(task'[t]) = Answer(task[t])
  BY AnswerOf
<1>4. /\ States' = [States EXCEPT ![t] = "applied"] /\ States[t] = "waiting"
      /\ Requests' = Requests /\ Requests[t] = Promised(task[t].req)
      /\ Answers' = Answers
  BY <1>1, <1>2, <1>3, OneMoves DEF States, Requests, Answers
<1>5. Requests[t].op # "read" /\ Promise!Target(Requests[t]) = Res(t)
  BY <1>4, PromisedIs DEF Op, Res
<1>6. /\ Promise!Applies(Requests[t], Contents[Promise!Target(Requests[t])])
      /\ Contents' = [Contents EXCEPT ![Promise!Target(Requests[t])] =
                          Promise!Effect(Requests[t],
                                         Contents[Promise!Target(Requests[t])])]
  BY <1>4, <1>5
<1>7. Promise!Apply(t)
  BY <1>4, <1>5, <1>6
  DEF Promise!Apply, Contents, Requests, States, Answers, AtomicRequest
<1> QED
  BY <1>7 DEF AtomicStep, Promise!Next

\* What was loaded is answered, or goes to the update.
LEMMA LoadedAtomic ==
    ASSUME Inv, LockInv, NEW t \in Task, task[t].pc \in {"lookup", "mark"}, NEW entry,
           Loaded(t, entry), entry.value \in Snapshot,
           task[t].guard # "none" => entry.value = disk[Res(t)],
           UNCHANGED <<disk, resources>>
    PROVE  /\ Moves(t) /\ LockOK(task'[t]) /\ FileOK(task'[t], disk, resources)
           /\ AtomicStep
<1>1. task[t] \in TaskState /\ Op(t) \in DataOps /\ OthersStay(t)
  BY TaskFacts DEF TaskInv, Allowed, LoadPC, Op, Loaded, Inv, TypeOK, OthersStay
<1>2. Contents' = Contents /\ task[t].pc \notin WrittenPC \cup {"done", "idle"}
  BY DEF Contents, WrittenPC
<1>3. CASE Op(t) \in ReadOps
  <2> DEFINE w == [IdleTask EXCEPT !.pc = "done", !.req = task[t].req, !.status = "ok",
                                   !.value = entry.value, !.rev = entry.rev]
  <2>1. task'[t] = w
    BY <1>3 DEF Loaded, Inv, TypeOK
  <2>2. /\ w.pc = "done" /\ w.req = task[t].req /\ w.guard = "none" /\ w.status = "ok"
        /\ w.value = entry.value
    BY IdleTaskType DEF IdleTask
  <2> HIDE DEF w
  <2>3. Moves(t)
    BY <1>1, <1>2, <2>1, <2>2 DEF Moves
  <2>4. LockOK(w) /\ FileOK(w, disk, resources)
    BY <1>2, <2>2, DoneLocked
  <2>5. CASE Op(t) = "read"
    <3>1. Locking(task[t])
      BY <1>2, <2>5 DEF Locking, LockedOps, Op
    <3>2. task[t].guard # "none"
      BY <1>2, <3>1, HasLock DEF Serving
    <3>3. AtomicStatus(task[t]) = "waiting"
      BY <1>2, <3>1, StatusOf
    <3> QED
      BY <1>1, <2>1, <2>2, <2>3, <2>4, <2>5, <3>1, <3>2, <3>3, ReadStep
  <2>6. CASE Op(t) # "read"
    <3>1. Op(t) = "relation_read"
      BY <1>3, <2>6 DEF ReadOps
    <3>2. ~Locking(task[t]) /\ ~Locking(w)
      BY <2>2, <3>1
      DEF Locking, LockedOps, UpdateOps, ItemOps, ObjectOps, SetOps, Op
    <3>3. /\ AtomicStatus(w) = AtomicStatus(task[t])
          /\ AtomicRequest(w) = AtomicRequest(task[t])
      BY <3>2, StatusOf DEF AtomicRequest
    <3>4. Answer(w) = Answer(task[t])
      BY <2>2, <2>6, AnswerOf DEF Op
    <3> QED
      BY <1>1, <1>2, <2>1, <2>3, <2>4, <3>3, <3>4, Hidden
  <2> QED
    BY <2>5, <2>6
<1>4. CASE Op(t) \notin ReadOps
  <2> DEFINE w == [task[t] EXCEPT !.pc = "apply", !.arc = entry.arc,
                                  !.value = entry.value, !.rev = entry.rev]
  <2>1. task'[t] = w
    BY <1>4 DEF Loaded, Inv, TypeOK
  <2>2. /\ w.pc = "apply" /\ w.req = task[t].req /\ w.guard = task[t].guard
        /\ w.value = entry.value
    BY <1>1 DEF TaskState
  <2> HIDE DEF w
  <2>3. Moves(t)
    BY <1>1, <1>2, <2>1, <2>2 DEF Moves
  <2>4. LockOK(w)
    BY <2>2 DEF LockInv, LockOK, Serving, CreatePC, DeletePC
  <2>5. FileOK(w, disk, resources)
    BY <2>2 DEF FileOK, Res
  <2>6. AtomicStep
    BY <1>2, <2>1, <2>2, <2>3, OnTheWay DEF WrittenPC
  <2> QED
    BY <2>1, <2>3, <2>4, <2>5, <2>6
<1> QED
  BY <1>3, <1>4

\* LookupHit: a read may be answered from the cache.
LEMMA LookupHitAtomic ==
    ASSUME Inv, LockInv, NEW t \in Task, LookupHit(t)
    PROVE  LockInv' /\ AtomicStep
<1>1. /\ task[t].pc = "lookup" /\ cache[Res(t)] # NoEntry /\ Loaded(t, cache[Res(t)])
      /\ UNCHANGED <<disk, cache, resources>>
  BY DEF LookupHit, At, storeVars
<1>2. /\ task[t].guard # "none" => cache[Res(t)].value = disk[Res(t)]
      /\ cache[Res(t)].value \in Snapshot
  <2>1. Res(t) \in Resource /\ cache[Res(t)] \in {NoEntry} \cup Entry
    BY <1>1, TaskFacts DEF Inv, TypeOK
  <2> QED
    BY <1>1, <2>1, HolderFinds DEF Entry, UpdatingPC
<1>3. /\ Moves(t) /\ LockOK(task'[t]) /\ FileOK(task'[t], disk, resources)
      /\ AtomicStep
  BY <1>1, <1>2, LoadedAtomic
<1> QED
  BY <1>1, <1>3, QuietLock DEF UpdatingPC

\* What is found in the cache or in the file, to be validated or cached.
LEMMA FoundAtomic ==
    ASSUME Inv, LockInv, NEW t \in Task, task[t].pc \in {"lookup", "open"},
           NEW w, task'[t] = w, OthersStay(t), w.pc \in {"admit", "insert"},
           w.req = task[t].req, w.guard = task[t].guard,
           task[t].guard # "none" => w.value = disk[Res(t)],
           UNCHANGED <<disk, cache, resources>>
    PROVE  LockInv' /\ AtomicStep
<1>1. Moves(t)
  BY DEF Moves
<1>2. LockOK(w)
  BY DEF LockInv, LockOK, Serving, CreatePC, DeletePC
<1>3. FileOK(w, disk, resources)
  BY DEF FileOK, Res
<1>4. LockInv'
  BY <1>1, <1>2, <1>3, QuietLock DEF UpdatingPC
<1>5. AtomicStep
  BY <1>1, OnTheWay DEF Contents, WrittenPC
<1> QED
  BY <1>4, <1>5

\* LookupStale: what is cached has to be validated again.
LEMMA LookupStaleAtomic ==
    ASSUME Inv, LockInv, NEW t \in Task, LookupStale(t)
    PROVE  LockInv' /\ AtomicStep
<1> DEFINE w == [task[t] EXCEPT !.pc = "admit", !.arc = cache[Res(t)].arc,
                                !.value = cache[Res(t)].value]
<1>1. /\ task[t].pc = "lookup" /\ cache[Res(t)] # NoEntry /\ task' = [task EXCEPT ![t] = w]
      /\ UNCHANGED <<disk, cache, resources>>
  BY DEF LookupStale, At, storeVars
<1>2. task[t] \in TaskState /\ task'[t] = w /\ OthersStay(t)
  BY <1>1, TaskFacts DEF Inv, TypeOK, OthersStay
<1>3. /\ w.pc = "admit" /\ w.req = task[t].req /\ w.guard = task[t].guard
      /\ w.value = cache[Res(t)].value
  BY <1>2 DEF TaskState
<1> HIDE DEF w
<1>4. task[t].guard # "none" => w.value = disk[Res(t)]
  BY <1>1, <1>3, HolderFinds DEF UpdatingPC
<1> QED
  BY <1>1, <1>2, <1>3, <1>4, FoundAtomic

\* OpenFile: what is loaded is the content of the file.
LEMMA OpenFileAtomic ==
    ASSUME Inv, LockInv, NEW t \in Task, OpenFile(t)
    PROVE  LockInv' /\ AtomicStep
<1> DEFINE pc == IF Validated(t) THEN "admit" ELSE "insert"
           w == [task[t] EXCEPT !.pc = pc, !.value = disk[Res(t)], !.arc = FreshArc]
<1>1. /\ task[t].pc = "open" /\ task' = [task EXCEPT ![t] = w]
      /\ UNCHANGED <<disk, cache, resources>>
  BY DEF OpenFile, At, storeVars
<1>2. task[t] \in TaskState /\ task'[t] = w /\ OthersStay(t)
  BY <1>1, TaskFacts DEF Inv, TypeOK, OthersStay
<1>3. /\ w.pc \in {"admit", "insert"} /\ w.req = task[t].req /\ w.guard = task[t].guard
      /\ w.value = disk[Res(t)]
  BY <1>2 DEF TaskState
<1> HIDE DEF w
<1> QED
  BY <1>1, <1>2, <1>3, FoundAtomic

\* CheckRegistered: a deletion goes on only with a resource that is served.
LEMMA CheckRegisteredAtomic ==
    ASSUME Inv, LockInv, NEW t \in Task, CheckRegistered(t)
    PROVE  LockInv' /\ AtomicStep
<1>1. task[t].pc = "registered" /\ UNCHANGED <<disk, cache, resources>>
  BY DEF CheckRegistered, At, storeVars
<1>2. \/ Fail(t) \/ Goto(t, "open")
      \/ Goto(t, "create") /\ Op(t) = "create_resource"
      \/ Goto(t, "remove") /\ Op(t) = "delete_resource" /\ Res(t) \in resources
  BY DEF CheckRegistered
<1>3. CASE Fail(t)
  BY <1>1, <1>3, FailLock DEF UpdatingPC
<1>4. CASE Goto(t, "open")
  <2>1. <<task[t].pc, "open">> \in EarlySteps
    BY <1>1 DEF EarlySteps
  <2> QED
    BY <1>1, <1>4, <2>1, GoesToAtomic
<1>5. ASSUME NEW pc, Goto(t, pc),
             \/ pc = "create" /\ Op(t) = "create_resource"
             \/ pc = "remove" /\ Op(t) = "delete_resource" /\ Res(t) \in resources
      PROVE  LockInv' /\ AtomicStep
  <2> DEFINE w == [task[t] EXCEPT !.pc = pc]
  <2>1. task'[t] = w /\ OthersStay(t)
    BY <1>5 DEF Goto, Inv, TypeOK, OthersStay
  <2>2. w.pc = pc /\ w.req = task[t].req /\ w.guard = task[t].guard
    BY TaskFacts DEF TaskState
  <2> HIDE DEF w
  <2>3. Moves(t)
    BY <1>1, <1>5, <2>1, <2>2 DEF Moves
  <2>4. LockOK(w)
    BY <1>1, <1>5, <2>2 DEF LockInv, LockOK, Serving, CreatePC, DeletePC, Op
  <2>5. FileOK(w, disk, resources)
    BY <1>5, <2>2 DEF FileOK, NeedsSnapshot, UpdatePC, RefreshPC, Res
  <2>6. LockInv'
    BY <1>1, <2>1, <2>3, <2>4, <2>5, QuietLock DEF UpdatingPC
  <2>7. AtomicStep
    BY <1>1, <1>5, <2>1, <2>2, <2>3, OnTheWay DEF Contents, WrittenPC
  <2> QED
    BY <2>6, <2>7
<1> QED
  BY <1>2, <1>3, <1>4, <1>5

\* What MarkValidated does for one who carries the content of the file.
LEMMA MarkCaches ==
    ASSUME Inv, LockInv, NEW t \in Task, task[t].pc \in {"mark", "certify"},
           task[t].guard # "none",
           MarkValidated(Res(t), task[t].arc, task[t].value, task[t].rev)
    PROVE  \/ cache' = cache /\ task[t].pc \notin UpdatingPC
           \/ \E e \in {NoEntry} \cup Entry :
                  /\ cache' = [cache EXCEPT ![Res(t)] = e]
                  /\ e # NoEntry => e.value = disk[Res(t)]
<1> DEFINE e == [arc |-> task[t].arc, value |-> task[t].value, rev |-> task[t].rev]
<1>1. /\ NeedsSnapshot(task[t].req.op, task[t].pc)
      /\ task[t].arc \in Arc /\ task[t].value \in Snapshot
      /\ task[t].rev \in {Unvalidated} \cup Nat
  BY TaskFacts DEF TaskInv, HasSnapshot, NeedsSnapshot, UpdatePC, TaskState
<1>2. task[t].value = disk[Res(t)]
  BY <1>1 DEF LockInv, FileOK, Res
<1>3. e \in Entry /\ e.value = disk[Res(t)]
  BY <1>1, <1>2 DEF Entry
<1>4. cache' = cache \/ cache' = [cache EXCEPT ![Res(t)] = e]
  BY DEF MarkValidated
<1> HIDE DEF e
<1> QED
  BY <1>3, <1>4 DEF UpdatingPC

\* Mark: what was validated is cached, unless something else is.  A read
\* without the lock needs the cache to be right for another reason.
LEMMA MarkAtomic ==
    ASSUME Inv, LockInv, NEW t \in Task, Mark(t), NoBareReads \/ CacheOK'
    PROVE  LockInv' /\ AtomicStep
<1>1. /\ task[t].pc = "mark" /\ Loaded(t, task[t]) /\ UNCHANGED <<disk, resources>>
      /\ MarkValidated(Res(t), task[t].arc, task[t].value, task[t].rev)
  BY DEF Mark, At
<1>2. /\ task[t].value \in Snapshot
      /\ task[t].guard # "none" => task[t].value = disk[Res(t)]
  BY <1>1, TaskFacts DEF TaskInv, HasSnapshot, NeedsSnapshot, LockInv, FileOK, Res
<1>3. /\ Moves(t) /\ LockOK(task'[t]) /\ FileOK(task'[t], disk, resources)
      /\ AtomicStep
  BY <1>1, <1>2, LoadedAtomic
<1>4. CASE task[t].guard # "none"
  <2>1. \/ cache' = cache /\ task[t].pc \notin UpdatingPC
        \/ \E e \in {NoEntry} \cup Entry :
               /\ cache' = [cache EXCEPT ![Res(t)] = e]
               /\ e # NoEntry => e.value = disk[Res(t)]
    BY <1>1, <1>4, MarkCaches
  <2> QED
    BY <1>1, <1>3, <1>4, <2>1, CachingLock
<1>5. CASE task[t].guard = "none"
  <2>1. ~NoBareReads
    <3>1. ~Locking(task[t])
      BY <1>1, <1>5, HasLock DEF Serving
    <3>2. Op(t) \in DataOps
      BY <1>1, TaskFacts DEF TaskInv, Allowed, LoadPC, Op
    <3>3. Op(t) = "relation_read"
      BY <1>1, <3>1, <3>2 DEF Locking, LockedOps, DataOps, ReadOps, Op
    <3> QED
      BY <1>1, <3>3 DEF LockInv, LockOK, Op
  <2>2. \A r \in Resource \ {Res(t)} : cache'[r] = cache[r]
    BY <1>1 DEF MarkValidated, Inv, TypeOK
  <2>3. ASSUME NEW r \in Resource
        PROVE  ResourceOK(r)'
    <3>1. Installing(r)' => BusyAt(r, UpdatingPC)'
      BY DEF Installing, BusyAt, UpdatingPC
    <3>2. cache'[r] # NoEntry /\ ~BusyAt(r, UpdatingPC)' => cache'[r].value = disk'[r]
      BY <2>1, <3>1 DEF CacheOK
    <3>3. BusyAt(r, {"unregister"}) => BusyAt(r, {"unregister"})'
      BY <1>1, <1>3 DEF BusyAt, Moves, OthersStay, Res
    <3> QED
      BY <1>1, <3>2, <3>3 DEF LockInv, ResourceOK
  <2> QED
    BY <1>1, <1>3, <2>2, <2>3, LockedStep DEF OnlyAt
<1> QED
  BY <1>4, <1>5

\* InsertIfAbsent: so is what need not be validated.
LEMMA InsertIfAbsentAtomic ==
    ASSUME Inv, LockInv, NEW t \in Task, InsertIfAbsent(t)
    PROVE  LockInv' /\ AtomicStep
<1> DEFINE e == [arc |-> task[t].arc, value |-> task[t].value, rev |-> Unvalidated]
           w == [task[t] EXCEPT !.pc = "apply"]
<1>1. /\ task[t].pc = "insert" /\ Goto(t, "apply") /\ UNCHANGED <<disk, resources>>
      /\ cache' = cache \/ cache' = [cache EXCEPT ![Res(t)] = e]
  BY DEF InsertIfAbsent, At
<1>2. task'[t] = w /\ OthersStay(t)
  BY <1>1 DEF Goto, Inv, TypeOK, OthersStay
<1>3. /\ w.pc = "apply" /\ w.req = task[t].req /\ w.guard = task[t].guard
      /\ w.value = task[t].value
  BY TaskFacts DEF TaskState
<1>4. /\ task[t].arc \in Arc /\ task[t].value \in Snapshot /\ Op(t) \in UpdateOps
      /\ NeedsSnapshot(task[t].req.op, task[t].pc)
  BY <1>1, TaskFacts DEF TaskInv, Allowed, HasSnapshot, NeedsSnapshot, UpdatePC, Op
<1>5. task[t].guard = "write"
  BY <1>1, <1>4 DEF LockInv, LockOK, Serving, Op
<1>6. task[t].value = disk[Res(t)]
  BY <1>1, <1>4, <1>5 DEF LockInv, FileOK, Res
<1>7. e \in Entry /\ e.value = disk[Res(t)]
  BY <1>4, <1>6 DEF Entry
<1> HIDE DEF e, w
<1>8. Moves(t)
  BY <1>1, <1>2, <1>3 DEF Moves
<1>9. LockOK(w) /\ FileOK(w, disk, resources)
  BY <1>1, <1>3, <1>6 DEF LockInv, LockOK, FileOK, Serving, CreatePC, DeletePC, Res
<1>10. LockInv'
  BY <1>1, <1>2, <1>5, <1>7, <1>8, <1>9, CachingLock DEF UpdatingPC
<1>11. AtomicStep
  BY <1>1, <1>2, <1>3, <1>8, OnTheWay DEF Contents, WrittenPC
<1> QED
  BY <1>10, <1>11

\* The other steps of a load.
LEMMA LoadAtomic ==
    ASSUME Inv, LockInv, NEW t \in Task, Load(t), NoBareReads \/ CacheOK'
    PROVE  LockInv' /\ AtomicStep
<1>1. CASE ReadRevision(t)
  <2> DEFINE w == [task[t] EXCEPT !.pc = "lookup", !.rev = schema.revisions[Res(t)]]
  <2>1. /\ task[t].pc = "revision" /\ task' = [task EXCEPT ![t] = w]
        /\ UNCHANGED <<disk, cache, resources>>
    BY <1>1 DEF ReadRevision, At, storeVars
  <2>2. task'[t] = w /\ OthersStay(t)
    BY <2>1 DEF Inv, TypeOK, OthersStay
  <2>3. /\ w.pc = "lookup" /\ w.req = task[t].req /\ w.guard = task[t].guard
        /\ w.value = task[t].value
    BY TaskFacts DEF TaskState
  <2> HIDE DEF w
  <2>4. <<task[t].pc, w.pc>> \in EarlySteps
    BY <2>1, <2>3 DEF EarlySteps
  <2> QED
    BY <2>1, <2>2, <2>3, <2>4, GoesOnAtomic
<1>2. CASE LookupMiss(t)
  <2>1. /\ task[t].pc = "lookup" /\ Goto(t, "registered")
        /\ UNCHANGED <<disk, cache, resources>>
    BY <1>2 DEF LookupMiss, At, storeVars
  <2>2. <<task[t].pc, "registered">> \in EarlySteps
    BY <2>1 DEF EarlySteps
  <2> QED
    BY <2>1, <2>2, GoesToAtomic
<1>3. CASE OpenFails(t)
  <2>1. task[t].pc = "open" /\ Fail(t) /\ UNCHANGED <<disk, cache, resources>>
    BY <1>3 DEF OpenFails, At, storeVars
  <2> QED
    BY <2>1, FailLock DEF UpdatingPC
<1>4. CASE Admit(t)
  <2> DEFINE w == [task[t] EXCEPT !.pc = "mark", !.rev = schema.revisions[Res(t)]]
  <2>1. /\ task[t].pc = "admit" /\ UNCHANGED <<disk, cache, resources>>
        /\ Fail(t) \/ task' = [task EXCEPT ![t] = w]
    BY <1>4 DEF Admit, At, storeVars
  <2>2. CASE Fail(t)
    BY <2>1, <2>2, FailLock DEF UpdatingPC
  <2>3. CASE task' = [task EXCEPT ![t] = w]
    <3>1. task'[t] = w /\ OthersStay(t)
      BY <2>3 DEF Inv, TypeOK, OthersStay
    <3>2. /\ w.pc = "mark" /\ w.req = task[t].req /\ w.guard = task[t].guard
          /\ w.value = task[t].value
      BY TaskFacts DEF TaskState
    <3> HIDE DEF w
    <3>3. <<task[t].pc, w.pc>> \in EarlySteps
      BY <2>1, <3>2 DEF EarlySteps
    <3> QED
      BY <2>1, <3>1, <3>2, <3>3, GoesOnAtomic
  <2> QED
    BY <2>1, <2>2, <2>3
<1> QED
  BY <1>1, <1>2, <1>3, <1>4, LookupHitAtomic, LookupStaleAtomic, CheckRegisteredAtomic,
     OpenFileAtomic, MarkAtomic, InsertIfAbsentAtomic
  DEF Load

-----------------------------------------------------------------------------

\* Apply: the update is computed on the content of the file.
LEMMA ApplyAtomic ==
    ASSUME Inv, LockInv, NEW t \in Task, Apply(t)
    PROVE  LockInv' /\ AtomicStep
<1> DEFINE s == task[t].value
           new == Updated(task[t].req, s)
           made == Position(task[t].req, s)
           w == [task[t] EXCEPT !.pc = "readiness", !.value = new, !.arc = FreshArc,
                                !.rev = schema.revisions[Res(t)], !.made = made]
<1>1. task[t].pc = "apply" /\ UNCHANGED <<disk, cache, resources>>
  BY DEF Apply, At, storeVars
<1>2. /\ task[t] \in TaskState /\ Op(t) \in UpdateOps /\ s \in Snapshot
      /\ NeedsSnapshot(task[t].req.op, task[t].pc)
  BY <1>1, TaskFacts DEF TaskInv, Allowed, HasSnapshot, NeedsSnapshot, UpdatePC, Op
<1>3. CASE Fail(t)
  BY <1>1, <1>3, FailLock DEF UpdatingPC
<1>4. CASE ~Fail(t)
  <2>1. CanUpdate(task[t].req, s) /\ task' = [task EXCEPT ![t] = w]
    BY <1>4 DEF Apply
  <2>2. task'[t] = w /\ OthersStay(t)
    BY <2>1 DEF Inv, TypeOK, OthersStay
  <2>3. /\ w.pc = "readiness" /\ w.req = task[t].req /\ w.guard = task[t].guard
        /\ w.value = new
    BY <1>2 DEF TaskState
  <2> HIDE DEF w
  <2>4. task[t].guard = "write"
    BY <1>1, <1>2 DEF LockInv, LockOK, Serving, Op
  <2>5. s = disk[Res(t)]
    BY <1>1, <1>2, <2>4 DEF LockInv, FileOK, Res
  <2>6. Moves(t)
    BY <1>1, <2>2, <2>3 DEF Moves
  <2>7. LockOK(w)
    BY <1>1, <2>3 DEF LockInv, LockOK, Serving, CreatePC, DeletePC
  <2>8. FileOK(w, disk, resources)
    BY <1>2, <2>1, <2>3, <2>5 DEF FileOK, Res
  <2>9. LockInv'
    BY <1>1, <2>2, <2>6, <2>7, <2>8, QuietLock DEF UpdatingPC
  <2>10. AtomicStep
    BY <1>1, <2>2, <2>3, <2>6, OnTheWay DEF Contents, WrittenPC
  <2> QED
    BY <2>9, <2>10
<1> QED
  BY <1>3, <1>4

\* A step that changes the file of a resource, under the write lock.
LEMMA DiskLock ==
    ASSUME Inv, LockInv, NEW t \in Task, Moves(t), task[t].guard = "write",
           NEW c \in FileContent, disk' = [disk EXCEPT ![Res(t)] = c],
           UNCHANGED <<cache, resources>>,
           LockOK(task'[t]), FileOK(task'[t], disk', resources'),
           task'[t].pc \in UpdatingPC \/ cache[Res(t)] = NoEntry,
           Untold => \/ c \in Snapshot \/ task'[t].pc = "unregister"
                     \/ Res(t) \notin resources
    PROVE  LockInv'
<1>1. Res(t) \in Resource
  BY TaskFacts DEF Moves
<1>2. \A r \in Resource : disk'[r] = IF r = Res(t) THEN c ELSE disk[r]
  BY DEF Inv, TypeOK
<1>3. Res(t)' = Res(t)
  BY DEF Moves, Res
<1>4. ASSUME NEW r \in Resource, r = Res(t)
      PROVE  ResourceOK(r)'
  <2>1. /\ task'[t].pc \in UpdatingPC => BusyAt(r, UpdatingPC)'
        /\ task'[t].pc = "unregister" => BusyAt(r, {"unregister"})'
    BY <1>3, <1>4 DEF BusyAt
  <2> QED
    BY <1>2, <1>4, <2>1 DEF ResourceOK
<1> QED
  BY <1>2, <1>4, LockedStep DEF OnlyAt

\* A step of a writer that only goes on to pc.
LEMMA WriterGoes ==
    ASSUME Inv, LockInv, NEW t \in Task, NEW pc, Goto(t, pc), Serving(task[t]),
           pc \in CreatePC => Op(t) = "create_resource",
           pc \in DeletePC => Op(t) = "delete_resource",
           Serving([task[t] EXCEPT !.pc = pc])
    PROVE  /\ task'[t] = [task[t] EXCEPT !.pc = pc] /\ Moves(t) /\ LockOK(task'[t])
           /\ task'[t].pc = pc /\ task'[t].req = task[t].req
           /\ task'[t].guard = task[t].guard /\ task'[t].value = task[t].value
<1> DEFINE w == [task[t] EXCEPT !.pc = pc]
<1>1. task'[t] = w /\ OthersStay(t)
  BY DEF Goto, Inv, TypeOK, OthersStay
<1>2. /\ w.pc = pc /\ w.req = task[t].req /\ w.guard = task[t].guard
      /\ w.value = task[t].value
  BY TaskFacts DEF TaskState
<1> HIDE DEF w
<1>3. Serving(w)
  BY DEF w
<1>4. Moves(t)
  BY <1>1, <1>2, <1>3 DEF Moves, Serving
<1>5. LockOK(w)
  BY <1>2, <1>3 DEF LockInv, LockOK, Serving, Op
<1> QED
  BY <1>1, <1>2, <1>4, <1>5 DEF w

\* Persist: the update takes effect.
LEMMA PersistAtomic ==
    ASSUME Inv, LockInv, NEW t \in Task, Persist(t)
    PROVE  LockInv' /\ AtomicStep
<1> DEFINE s == disk[Res(t)]
           new == task[t].value
<1>1. /\ task[t].pc = "persist" /\ Goto(t, "install") /\ UNCHANGED <<cache, resources>>
      /\ disk' = [disk EXCEPT ![Res(t)] = new]
  BY DEF Persist, At, WriteDisk
<1>3. /\ Op(t) \in UpdateOps /\ Res(t) \in Resource /\ task[t] \in TaskState
      /\ new \in Snapshot
  BY <1>1, TaskFacts DEF TaskInv, Allowed, HasSnapshot, NeedsSnapshot, UpdatePC, Op
<1>4. task[t].guard = "write" /\ Locking(task[t]) /\ Op(t) \notin SetOps \cup {"read"}
  BY <1>1, <1>3
  DEF LockInv, LockOK, Serving, Locking, LockedOps, Op, UpdateOps, ItemOps, ObjectOps, SetOps
<1>5. s \in Snapshot /\ CanUpdate(task[t].req, s) /\ new = Updated(task[t].req, s)
  BY <1>1, <1>4 DEF LockInv, FileOK, Res
<1>6. /\ Moves(t) /\ LockOK(task'[t])
      /\ task'[t].pc = "install" /\ task'[t].req = task[t].req
      /\ task'[t].guard = task[t].guard /\ task'[t].value = new
  <2>1. [task[t] EXCEPT !.pc = "install"].pc = "install"
    BY <1>3 DEF TaskState
  <2> QED
    BY <1>1, <2>1, WriterGoes DEF Serving, CreatePC, DeletePC
<1>7. disk'[Res(t)] = new /\ new \in FileContent
  BY <1>1, <1>3 DEF Inv, TypeOK, FileContent
<1> HIDE DEF s, new
<1>8. FileOK(task'[t], disk', resources')
  BY <1>6, <1>7 DEF FileOK, Res
<1>9. LockInv'
  BY <1>1, <1>3, <1>4, <1>6, <1>7, <1>8, DiskLock DEF UpdatingPC
<1>10. AtomicStep
  <2>1. Contents[Res(t)] = s /\ s # Absent
    BY <1>3, <1>5, AbsentAssumption DEF Contents, s
  <2>2. Promise!Applies(Promised(task[t].req), s)
    BY <1>4, <1>5, <2>1, PromisedIs, SameUpdates DEF Promise!Applies, Op, SetOps
  <2>3. Promise!Effect(Promised(task[t].req), s) = new
    BY <1>4, <1>5, PromisedIs, SameUpdates DEF Promise!Effect, Op, SetOps
  <2>4. Contents' = [Contents EXCEPT ![Res(t)] = new]
    BY <1>1, <1>3 DEF Contents, Inv, TypeOK
  <2>5. AtomicStatus(task[t]) = "waiting" /\ AtomicStatus(task'[t]) = "applied"
    <3>1. Locking(task'[t])
      BY <1>4, <1>6 DEF Locking
    <3> QED
      BY <1>1, <1>4, <1>6, <3>1, StatusOf DEF WrittenPC
  <2> QED
    BY <1>1, <1>4, <1>6, <2>1, <2>2, <2>3, <2>4, <2>5, WriteStep
<1> QED
  BY <1>9, <1>10

\* InstallInCache: the cache follows the file.
LEMMA InstallInCacheAtomic ==
    ASSUME Inv, LockInv, NEW t \in Task, InstallInCache(t)
    PROVE  LockInv' /\ AtomicStep
<1> DEFINE e == [arc |-> task[t].arc, value |-> task[t].value, rev |-> Unvalidated]
           pc == IF task[t].local THEN "infer" ELSE "snapshot"
<1>1. /\ task[t].pc = "install" /\ Goto(t, pc) /\ UNCHANGED <<disk, resources>>
      /\ cache' = [cache EXCEPT ![Res(t)] = e]
  BY DEF InstallInCache, At, UpdateCached
<1>2. /\ task[t].arc \in Arc /\ task[t].value \in Snapshot /\ Op(t) \in UpdateOps
      /\ NeedsSnapshot(task[t].req.op, task[t].pc) /\ task[t] \in TaskState
  BY <1>1, TaskFacts DEF TaskInv, Allowed, HasSnapshot, NeedsSnapshot, UpdatePC, Op
<1>3. task[t].guard = "write"
  BY <1>1, <1>2 DEF LockInv, LockOK, Serving, Op
<1>4. task[t].value = disk[Res(t)]
  BY <1>1, <1>2, <1>3 DEF LockInv, FileOK, Res
<1>5. e \in Entry /\ e.value = disk[Res(t)]
  BY <1>2, <1>4 DEF Entry
<1>6. pc \in {"infer", "snapshot"}
  OBVIOUS
<1> HIDE DEF e, pc
<1>7. /\ Moves(t) /\ LockOK(task'[t])
      /\ task'[t].pc = pc /\ task'[t].req = task[t].req
      /\ task'[t].guard = task[t].guard /\ task'[t].value = task[t].value
  <2>1. [task[t] EXCEPT !.pc = pc].pc = pc
    BY <1>2 DEF TaskState
  <2> QED
    BY <1>1, <1>6, <2>1, WriterGoes DEF Serving, CreatePC, DeletePC
<1>8. FileOK(task'[t], disk, resources)
  BY <1>4, <1>6, <1>7 DEF FileOK, Res
<1>9. LockInv'
  BY <1>1, <1>3, <1>5, <1>7, <1>8, CachingLock
<1>10. AtomicStep
  BY <1>1, <1>6, <1>7, OnTheWay DEF Contents, WrittenPC
<1> QED
  BY <1>9, <1>10

\* A request succeeds: it has had its effect.
LEMMA SucceedAtomic ==
    ASSUME Inv, LockInv, NEW t \in Task, task[t].pc \in {"certify", "announce"}, Succeed(t),
           UNCHANGED disk
    PROVE  /\ Moves(t) /\ LockOK(task'[t])
           /\ \A d, s : FileOK(task'[t], d, s)
           /\ AtomicStep
<1> DEFINE w == [IdleTask EXCEPT !.pc = "done", !.req = task[t].req, !.status = "ok",
                     !.value = task[t].value, !.rev = task[t].rev, !.made = task[t].made]
<1>1. task'[t] = w /\ OthersStay(t)
  BY DEF Succeed, Inv, TypeOK, OthersStay
<1>2. w.pc = "done" /\ w.req = task[t].req /\ w.guard = "none" /\ w.status = "ok"
  BY IdleTaskType DEF IdleTask
<1> HIDE DEF w
<1>3. Moves(t)
  BY <1>1, <1>2 DEF Moves
<1>4. LockOK(w) /\ \A d, s : FileOK(w, d, s)
  BY <1>2, DoneLocked
<1>5. Op(t) # "read"
  BY TaskFacts
  DEF TaskInv, Allowed, UpdatePC, UpdateOps, ItemOps, ObjectOps, SetOps, Op
<1>6. /\ Locking(w) <=> Locking(task[t])
      /\ Answer(w) = Answer(task[t]) /\ Contents' = Contents
  BY <1>2, <1>5, AnswerOf DEF Locking, Op, Contents
<1>7. AtomicRequest(w) = AtomicRequest(task[t])
  BY <1>2, <1>6 DEF AtomicRequest
<1>8. CASE Locking(task[t])
  <2>1. AtomicStatus(task[t]) = "applied" /\ AtomicStatus(w) = "ok"
    BY <1>2, <1>6, <1>8, StatusOf DEF WrittenPC
  <2> QED
    BY <1>1, <1>3, <1>4, <1>6, <1>7, <2>1, StatusStep
<1>9. CASE ~Locking(task[t])
  <2>1. AtomicStatus(task[t]) = AtomicStatus(w)
    BY <1>6, <1>9, StatusOf
  <2> QED
    BY <1>1, <1>3, <1>4, <1>6, <1>7, <2>1, Hidden
<1> QED
  BY <1>8, <1>9

\* Certify: the last step of an update.
LEMMA CertifyAtomic ==
    ASSUME Inv, LockInv, NEW t \in Task, Certify(t)
    PROVE  LockInv' /\ AtomicStep
<1>1. /\ task[t].pc = "certify" /\ Succeed(t) /\ UNCHANGED <<disk, resources>>
      /\ MarkValidated(Res(t), task[t].arc, task[t].value, task[t].rev)
  BY DEF Certify, At
<1>2. task[t].guard = "write"
  BY <1>1, TaskFacts DEF TaskInv, Allowed, UpdatePC, LockInv, LockOK, Serving
<1>3. \/ cache' = cache /\ task[t].pc \notin UpdatingPC
      \/ \E e \in {NoEntry} \cup Entry :
             /\ cache' = [cache EXCEPT ![Res(t)] = e]
             /\ e # NoEntry => e.value = disk[Res(t)]
  BY <1>1, <1>2, MarkCaches
<1>4. /\ Moves(t) /\ LockOK(task'[t]) /\ FileOK(task'[t], disk, resources)
      /\ AtomicStep
  BY <1>1, SucceedAtomic
<1>5. LockInv'
  BY <1>1, <1>2, <1>3, <1>4, CachingLock
<1> QED
  BY <1>4, <1>5

\* The inferred schema is no concern of the folder.
LEMMA InferredAtomic ==
    ASSUME Inv, LockInv, NEW t \in Task, NEW inferred, NEW next,
           InstallInferred(t, inferred, next),
           <<task[t].pc, next>> \in LateSteps, next = "certify" => Op(t) \in UpdateOps,
           UNCHANGED <<disk, cache, resources>>
    PROVE  LockInv' /\ AtomicStep
<1>1. CASE Goto(t, next)
  BY <1>1, GoesToAtomic
<1>2. CASE Fail(t)
  <2>1. task[t].pc \notin {"idle", "done"} \cup UpdatingPC
    BY DEF LateSteps, UpdatingPC
  <2> QED
    BY <1>2, <2>1, FailLock
<1> QED
  BY <1>1, <1>2 DEF InstallInferred

\* update_locked_resource and write_resource_snapshot.
LEMMA UpdateAtomic ==
    ASSUME Undisturbed, Inv, LockInv, NEW t \in Task, Update(t)
    PROVE  LockInv' /\ AtomicStep
<1>1. CASE ReadReadiness(t)
  <2> DEFINE w == [task[t] EXCEPT !.pc = "persist", !.local = ready]
  <2>1. /\ task[t].pc = "readiness" /\ task' = [task EXCEPT ![t] = w]
        /\ UNCHANGED <<disk, cache, resources>>
    BY <1>1 DEF ReadReadiness, At, storeVars
  <2>2. task'[t] = w /\ OthersStay(t)
    BY <2>1 DEF Inv, TypeOK, OthersStay
  <2>3. /\ w.pc = "persist" /\ w.req = task[t].req /\ w.guard = task[t].guard
        /\ w.value = task[t].value
    BY TaskFacts DEF TaskState
  <2> HIDE DEF w
  <2>4. <<task[t].pc, w.pc>> \in EarlySteps
    BY <2>1, <2>3 DEF EarlySteps
  <2> QED
    BY <2>1, <2>2, <2>3, <2>4, GoesOnAtomic
<1>2. CASE PersistFails(t)
  <2>1. /\ task[t].pc = "persist" /\ Fail(t)
        /\ UNCHANGED <<disk, cache, resources>>
    BY <1>2 DEF PersistFails, At, storeVars
  <2> QED
    BY <2>1, FailLock DEF UpdatingPC
<1>3. CASE SyncFails(t)
  BY <1>3 DEF SyncFails, Undisturbed
<1>4. CASE InferLocally(t)
  <2> DEFINE inferred == [schema.inferred EXCEPT ![Res(t)] = InferTable(task[t].value)]
  <2>1. /\ task[t].pc = "infer" /\ InstallInferred(t, inferred, "certify")
        /\ UNCHANGED <<disk, cache, resources>>
    BY <1>4 DEF InferLocally, At
  <2>2. Op(t) \in UpdateOps
    BY <2>1, TaskFacts DEF TaskInv, Allowed, UpdatePC, Op
  <2>3. <<task[t].pc, "certify">> \in LateSteps
    BY <2>1 DEF LateSteps
  <2> HIDE DEF inferred
  <2> QED
    BY <2>1, <2>2, <2>3, InferredAtomic
<1> QED
  BY <1>1, <1>2, <1>3, <1>4, ApplyAtomic, PersistAtomic, InstallInCacheAtomic, CertifyAtomic
  DEF Update

\* The scan of a refresh.
LEMMA RefreshAtomic ==
    ASSUME Inv, LockInv, NEW t \in Task, Refresh(t)
    PROVE  LockInv' /\ AtomicStep
<1>1. CASE SnapshotResources(t)
  <2> DEFINE w == [task[t] EXCEPT !.pc = "scan", !.todo = resources, !.tables = NoTables]
  <2>1. /\ task[t].pc = "snapshot" /\ task' = [task EXCEPT ![t] = w]
        /\ UNCHANGED <<disk, cache, resources>>
    BY <1>1 DEF SnapshotResources, At, storeVars
  <2>2. task'[t] = w /\ OthersStay(t)
    BY <2>1 DEF Inv, TypeOK, OthersStay
  <2>3. /\ w.pc = "scan" /\ w.req = task[t].req /\ w.guard = task[t].guard
        /\ w.value = task[t].value
    BY TaskFacts DEF TaskState
  <2> HIDE DEF w
  <2>4. <<task[t].pc, w.pc>> \in LateSteps
    BY <2>1, <2>3 DEF LateSteps
  <2> QED
    BY <2>1, <2>2, <2>3, <2>4, GoesOnAtomic
<1>2. CASE ScanFile(t)
  <2>1. task[t].pc = "scan" /\ UNCHANGED <<disk, cache, resources>>
    BY <1>2 DEF ScanFile, At, storeVars
  <2>2. CASE Fail(t)
    BY <2>1, <2>2, FailLock DEF UpdatingPC
  <2>3. CASE ~Fail(t)
    <3>1. PICK r \in task[t].todo :
              task' = [task EXCEPT ![t].todo = @ \ {r},
                                   ![t].tables[r] = InferTable(disk[r])]
      BY <1>2, <2>3 DEF ScanFile
    <3> DEFINE w == [task[t] EXCEPT !.todo = @ \ {r}, !.tables[r] = InferTable(disk[r])]
    <3>2. task'[t] = w /\ OthersStay(t)
      BY <3>1 DEF Inv, TypeOK, OthersStay
    <3>3. /\ w.pc = task[t].pc /\ w.req = task[t].req /\ w.guard = task[t].guard
          /\ w.value = task[t].value
      BY TaskFacts DEF TaskState
    <3> HIDE DEF w
    <3>4. <<task[t].pc, w.pc>> \in LateSteps /\ w.pc # "certify"
      BY <2>1, <3>3 DEF LateSteps
    <3> QED
      BY <2>1, <3>2, <3>3, <3>4, GoesOnAtomic
  <2> QED
    BY <2>2, <2>3
<1>3. CASE InstallRefreshed(t)
  <2>1. /\ task[t].pc = "scan" /\ InstallInferred(t, task[t].tables, "mark_ready")
        /\ UNCHANGED <<disk, cache, resources>>
    BY <1>3 DEF InstallRefreshed, At
  <2>2. <<task[t].pc, "mark_ready">> \in LateSteps
    BY <2>1 DEF LateSteps
  <2> QED
    BY <2>1, <2>2, InferredAtomic
<1>4. CASE MarkReady(t)
  <2>1. /\ task[t].pc = "mark_ready" /\ UNCHANGED <<disk, cache, resources>>
        /\ \/ Op(t) \in UpdateOps /\ Goto(t, "certify")
           \/ Goto(t, "announce")
    BY <1>4 DEF MarkReady, At
  <2>2. /\ <<task[t].pc, "certify">> \in LateSteps
        /\ <<task[t].pc, "announce">> \in LateSteps
    BY <2>1 DEF LateSteps
  <2>3. CASE Op(t) \in UpdateOps /\ Goto(t, "certify")
    BY <2>1, <2>2, <2>3, GoesToAtomic
  <2>4. CASE Goto(t, "announce")
    BY <2>1, <2>2, <2>4, GoesToAtomic
  <2> QED
    BY <2>1, <2>3, <2>4
<1>5. CASE Announce(t)
  <2>1. /\ task[t].pc = "announce" /\ Succeed(t)
        /\ UNCHANGED <<disk, cache, resources>>
    BY <1>5 DEF Announce, At
  <2>2. /\ Moves(t) /\ LockOK(task'[t]) /\ FileOK(task'[t], disk, resources)
        /\ AtomicStep
    BY <2>1, SucceedAtomic
  <2> QED
    BY <2>1, <2>2, QuietLock DEF UpdatingPC
<1> QED
  BY <1>1, <1>2, <1>3, <1>4, <1>5 DEF Refresh

\* PUT /schema writes another file.
LEMMA PutSchemaAtomic ==
    ASSUME Inv, LockInv, NEW t \in Task, PutSchema(t)
    PROVE  LockInv' /\ AtomicStep
<1>1. UNCHANGED <<disk, cache, resources>>
  BY DEF PutSchema, CheckMerge, WriteSchemaFails, WriteSchemaFile, AdoptDeclared, storeVars
<1>2. PICK pc \in {"truncate", "write_schema", "adopt", "announce"} :
          /\ <<task[t].pc, pc>> \in EarlySteps \cup LateSteps
          /\ Goto(t, pc) \/ Fail(t)
  <2>1. CASE CheckMerge(t)
    BY <2>1 DEF CheckMerge, At, EarlySteps
  <2>2. CASE WriteSchemaFails(t)
    BY <2>2 DEF WriteSchemaFails, At, EarlySteps
  <2>3. CASE WriteSchemaFile(t)
    BY <2>3 DEF WriteSchemaFile, At, EarlySteps
  <2>4. CASE AdoptDeclared(t)
    BY <2>4 DEF AdoptDeclared, At, LateSteps
  <2> QED
    BY <2>1, <2>2, <2>3, <2>4 DEF PutSchema
<1>3. task[t].pc \notin {"idle", "done"} \cup UpdatingPC
  BY <1>2 DEF EarlySteps, LateSteps, UpdatingPC
<1>4. CASE Goto(t, pc)
  BY <1>1, <1>2, <1>4, GoesToAtomic
<1>5. CASE Fail(t)
  BY <1>1, <1>3, <1>5, FailLock
<1> QED
  BY <1>2, <1>4, <1>5

\* A handler that creates or deletes a resource.
LEMMA SetFacts ==
    ASSUME Inv, LockInv, NEW t \in Task, task[t].pc \in SetPC \ {"validate"}
    PROVE  /\ Op(t) \in SetOps /\ Op(t) \notin UpdateOps \cup {"read"}
           /\ Locking(task[t]) /\ task[t].guard = "write" /\ Serving(task[t])
           /\ Res(t) \in Resource /\ task[t] \in TaskState
           /\ task[t].req \in Request
           /\ task[t].pc \in CreatePC => Op(t) = "create_resource"
           /\ task[t].pc \in DeletePC => Op(t) = "delete_resource"
<1>1. Op(t) \in SetOps /\ task[t].pc # "idle"
  BY TaskFacts DEF TaskInv, Allowed, SetPC, Op
<1>2. Serving(task[t])
  BY DEF SetPC, Serving
<1> QED
  BY <1>1, <1>2, TaskFacts
  DEF LockInv, LockOK, Locking, LockedOps, Op, UpdateOps, ItemOps, ObjectOps, SetOps

\* Nothing is cached of a file that cannot be read, nor is it a resource.
LEMMA NotThere ==
    ASSUME Inv, LockInv, NEW t \in Task, task[t].guard = "write",
           task[t].pc \notin UpdatingPC, disk[Res(t)] \notin Snapshot
    PROVE  cache[Res(t)] = NoEntry /\ (Untold => Res(t) \notin resources)
<1>1. task[t].pc # "idle"
  BY DEF LockInv, LockOK
<1>2. Res(t) \in Resource
  BY <1>1, TaskFacts
<1>3. cache[Res(t)] = NoEntry
  <2>1. cache[Res(t)] # NoEntry => cache[Res(t)].value = disk[Res(t)]
    BY HolderFinds
  <2>2. cache[Res(t)] \in {NoEntry} \cup Entry
    BY <1>2 DEF Inv, TypeOK
  <2> QED
    BY <2>1, <2>2 DEF Entry
<1>4. ~BusyAt(Res(t), {"unregister"})
  BY NobodyElse DEF BusyAt, UpdatingPC
<1> QED
  BY <1>2, <1>3, <1>4 DEF LockInv, ResourceOK

\* A step of such a handler that is not its write.
LEMMA SetGoes ==
    ASSUME Inv, LockInv, NEW t \in Task, task[t].pc \in SetPC \ {"validate"},
           NEW pc \in (SetPC \ {"validate"}) \cup {"snapshot"}, Goto(t, pc),
           pc \in CreatePC => Op(t) = "create_resource",
           pc \in DeletePC => Op(t) = "delete_resource"
    PROVE  /\ Moves(t) /\ LockOK(task'[t])
           /\ task'[t].pc = pc /\ task'[t].req = task[t].req
           /\ task'[t].guard = task[t].guard
           /\ ~NeedsSnapshot(task'[t].req.op, task'[t].pc)
           /\ task[t].pc # "done" /\ task'[t].pc # "done"
<1>1. Serving(task[t]) /\ Op(t) \notin UpdateOps /\ task[t] \in TaskState
  BY SetFacts
<1>2. pc \notin {"idle", "validate", "acquire", "done"} \cup UpdatePC \cup {"admit", "mark"}
  BY DEF SetPC, UpdatePC
<1>3. [task[t] EXCEPT !.pc = pc].pc = pc
  BY <1>1 DEF TaskState
<1>4. /\ Moves(t) /\ LockOK(task'[t])
      /\ task'[t].pc = pc /\ task'[t].req = task[t].req
      /\ task'[t].guard = task[t].guard
  BY <1>1, <1>2, <1>3, WriterGoes DEF Serving
<1> QED
  BY <1>1, <1>2, <1>4 DEF NeedsSnapshot, Op, Serving

\* CreateFile: the file appears, empty, where there was none.
LEMMA CreateFileAtomic ==
    ASSUME Inv, LockInv, NEW t \in Task, CreateFile(t)
    PROVE  LockInv' /\ AtomicStep
<1>1. task[t].pc = "create" /\ UNCHANGED <<cache, resources>>
  BY DEF CreateFile, WriteDisk, At
<1>2. CASE disk[Res(t)] = Absent
  <2>1. disk' = [disk EXCEPT ![Res(t)] = Garbage] /\ Goto(t, "fill")
    BY <1>2 DEF CreateFile, WriteDisk
  <2>2. /\ task[t].guard = "write" /\ Res(t) \in Resource /\ task[t].pc \in SetPC \ {"validate"}
    BY <1>1, SetFacts DEF SetPC
  <2> Op(t) = "create_resource"
    BY <1>1, <2>2, SetFacts DEF CreatePC
  <2>3. "fill" \in (SetPC \ {"validate"}) \cup {"snapshot"}
    BY DEF SetPC
  <2>4. /\ Moves(t) /\ LockOK(task'[t])
        /\ task'[t].pc = "fill" /\ task'[t].req = task[t].req
        /\ ~NeedsSnapshot(task'[t].req.op, task'[t].pc)
    BY <1>1, <2>1, <2>2, <2>3, SetGoes DEF DeletePC
  <2>5. disk'[Res(t)] = Garbage /\ Garbage \in FileContent
    BY <2>1, <2>2 DEF Inv, TypeOK, FileContent
  <2>6. FileOK(task'[t], disk', resources')
    BY <2>4, <2>5 DEF FileOK, Res
  <2>7. disk[Res(t)] \notin Snapshot
    BY <1>2, AbsentAssumption
  <2>8. cache[Res(t)] = NoEntry /\ (Untold => Res(t) \notin resources)
    BY <1>1, <2>2, <2>7, NotThere DEF UpdatingPC
  <2>9. LockInv'
    BY <1>1, <2>1, <2>2, <2>4, <2>5, <2>6, <2>8, DiskLock
  <2>10. Contents' = Contents
    BY <2>1, <2>7, GarbageAssumption DEF Contents, Inv, TypeOK
  <2>11. AtomicStep
    BY <1>1, <2>4, <2>10, OnTheWay DEF WrittenPC
  <2> QED
    BY <2>9, <2>11
<1>3. CASE disk[Res(t)] # Absent
  <2>1. Fail(t) /\ UNCHANGED disk
    BY <1>3 DEF CreateFile
  <2> QED
    BY <1>1, <2>1, FailLock DEF UpdatingPC
<1> QED
  BY <1>2, <1>3

\* FillFile: the creation takes effect.
LEMMA FillFileAtomic ==
    ASSUME Inv, LockInv, NEW t \in Task, FillFile(t)
    PROVE  LockInv' /\ AtomicStep
<1> DEFINE doc == task[t].req.doc
<1>1. /\ task[t].pc = "fill" /\ UNCHANGED <<cache, resources>>
      /\ disk' = [disk EXCEPT ![Res(t)] = doc] /\ Goto(t, "register")
  BY DEF FillFile, WriteDisk, At
<1>2. /\ task[t].guard = "write" /\ Res(t) \in Resource /\ task[t].pc \in SetPC \ {"validate"}
      /\ Locking(task[t]) /\ Op(t) \in SetOps /\ task[t].req \in Request
  BY <1>1, SetFacts DEF SetPC
<1> Op(t) = "create_resource"
  BY <1>1, <1>2, SetFacts DEF CreatePC
<1>3. "register" \in (SetPC \ {"validate"}) \cup {"snapshot"}
  BY DEF SetPC
<1>4. /\ Moves(t) /\ LockOK(task'[t])
      /\ task'[t].pc = "register" /\ task'[t].req = task[t].req
      /\ ~NeedsSnapshot(task'[t].req.op, task'[t].pc)
  BY <1>1, <1>2, <1>3, SetGoes DEF DeletePC
<1>5. doc \in Snapshot /\ disk'[Res(t)] = doc /\ doc \in FileContent
  BY <1>1, <1>2 DEF Inv, TypeOK, FileContent, Request
<1>6. FileOK(task'[t], disk', resources')
  BY <1>4, <1>5 DEF FileOK, Res
<1>7. disk[Res(t)] = Garbage /\ disk[Res(t)] \notin Snapshot
  <2>1. disk[Res(t)] = Garbage
    BY <1>1, <1>2 DEF LockInv, FileOK, Res
  <2> QED
    BY <2>1, GarbageAssumption
<1>8. cache[Res(t)] = NoEntry
  BY <1>1, <1>2, <1>7, NotThere DEF UpdatingPC
<1> HIDE DEF doc
<1>9. LockInv'
  BY <1>1, <1>2, <1>4, <1>5, <1>6, <1>8, DiskLock
<1>10. AtomicStep
  <2>1. Op(t) = "create_resource"
    OBVIOUS
  <2>2. Contents[Res(t)] = Absent
    BY <1>2, <1>7 DEF Contents
  <2>3. Promise!Applies(Promised(task[t].req), Absent)
    BY <2>1, PromisedIs DEF Promise!Applies, Op
  <2>4. Promise!Effect(Promised(task[t].req), Absent) = doc
    <3>1. Promised(task[t].req).doc = doc
      BY DEF Promised, doc
    <3> QED
      BY <2>1, <3>1, PromisedIs DEF Promise!Effect, Op
  <2>5. Contents' = [Contents EXCEPT ![Res(t)] = doc]
    BY <1>1, <1>2, <1>5 DEF Contents, Inv, TypeOK
  <2>6. AtomicStatus(task[t]) = "waiting" /\ AtomicStatus(task'[t]) = "applied"
    <3>1. Locking(task'[t])
      BY <1>2, <1>4 DEF Locking
    <3> QED
      BY <1>1, <1>2, <1>4, <3>1, StatusOf DEF WrittenPC
  <2> QED
    BY <1>1, <1>2, <1>4, <2>1, <2>2, <2>3, <2>4, <2>5, <2>6, WriteStep
<1> QED
  BY <1>9, <1>10

\* Register: the file is there.
LEMMA RegisterAtomic ==
    ASSUME Inv, LockInv, NEW t \in Task, Register(t)
    PROVE  LockInv' /\ AtomicStep
<1>1. /\ task[t].pc = "register" /\ UNCHANGED <<disk, cache>>
      /\ resources' = resources \cup {Res(t)} /\ Goto(t, "cache_new")
  BY DEF Register, At
<1>2. /\ task[t].guard = "write" /\ task[t].pc \in SetPC \ {"validate"}
      /\ Op(t) = "create_resource" /\ task[t].req \in Request
  BY <1>1, SetFacts DEF SetPC, CreatePC
<1>3. "cache_new" \in (SetPC \ {"validate"}) \cup {"snapshot"}
  BY DEF SetPC
<1>4. /\ Moves(t) /\ LockOK(task'[t])
      /\ task'[t].pc = "cache_new" /\ task'[t].req = task[t].req
      /\ ~NeedsSnapshot(task'[t].req.op, task'[t].pc)
      /\ task[t].pc # "done" /\ task'[t].pc # "done"
  BY <1>1, <1>2, <1>3, SetGoes DEF DeletePC
<1>5. disk[Res(t)] = task[t].req.doc /\ disk[Res(t)] \in Snapshot
  BY <1>1, <1>2 DEF LockInv, FileOK, Request, Res
<1>6. FileOK(task'[t], disk', resources')
  BY <1>1, <1>4, <1>5 DEF FileOK, Res
<1>7. ASSUME NEW r \in Resource, r = Res(t)
      PROVE  ResourceOK(r)'
  <2>1. BusyAt(r, UpdatingPC) => BusyAt(r, UpdatingPC)'
    BY <1>1, <1>4 DEF BusyAt, Moves, OthersStay, Res, UpdatingPC
  <2> QED
    BY <1>1, <1>5, <1>7, <2>1 DEF LockInv, ResourceOK
<1>8. OnlyAt(Res(t))
  BY <1>1 DEF OnlyAt
<1>9. LockInv'
  BY <1>2, <1>4, <1>6, <1>7, <1>8, LockedStep
<1>10. AtomicStep
  BY <1>1, <1>4, OnTheWay DEF Contents, WrittenPC
<1> QED
  BY <1>9, <1>10

\* CacheNew: what is cached is what the file was filled with.
LEMMA CacheNewAtomic ==
    ASSUME Inv, LockInv, NEW t \in Task, CacheNew(t)
    PROVE  LockInv' /\ AtomicStep
<1> DEFINE e == [arc |-> FreshArc, value |-> task[t].req.doc, rev |-> Unvalidated]
<1>1. /\ task[t].pc = "cache_new" /\ UNCHANGED <<disk, resources>>
      /\ cache' = [cache EXCEPT ![Res(t)] = e] /\ Goto(t, "snapshot")
      /\ ArcAvailable
  BY DEF CacheNew, At, UpdateCached
<1>2. /\ task[t].guard = "write" /\ task[t].pc \in SetPC \ {"validate"}
      /\ Op(t) = "create_resource" /\ task[t].req \in Request
  BY <1>1, SetFacts DEF SetPC, CreatePC
<1>3. /\ Moves(t) /\ LockOK(task'[t])
      /\ task'[t].pc = "snapshot" /\ task'[t].req = task[t].req
      /\ ~NeedsSnapshot(task'[t].req.op, task'[t].pc)
      /\ task[t].pc # "done" /\ task'[t].pc # "done"
  BY <1>1, <1>2, SetGoes DEF CreatePC, DeletePC
<1>4. FileOK(task'[t], disk, resources)
  BY <1>3 DEF FileOK
<1>5. FreshArc \in Arc
  BY <1>1 DEF ArcAvailable, FreshArc
<1>6. e \in Entry /\ e.value = disk[Res(t)]
  BY <1>1, <1>2, <1>5 DEF LockInv, FileOK, Request, Entry, Res
<1> HIDE DEF e
<1>7. LockInv'
  BY <1>1, <1>2, <1>3, <1>4, <1>6, CachingLock
<1>8. AtomicStep
  BY <1>1, <1>3, OnTheWay DEF Contents, WrittenPC
<1> QED
  BY <1>7, <1>8

\* What a deletion takes away is the whole of a file, not the torn one of a
\* creation that failed: DELETE succeeds on that too, once the watcher has
\* published it as a resource.
DeletesWhole == \A t \in Task : At(t, "remove") => disk[Res(t)] # Garbage

\* RemoveFile: the deletion takes effect.
LEMMA RemoveFileAtomic ==
    ASSUME Inv, LockInv, NEW t \in Task, RemoveFile(t)
    PROVE  LockInv' /\ (DeletesWhole => AtomicStep)
<1>1. task[t].pc = "remove" /\ UNCHANGED <<cache, resources>>
  BY DEF RemoveFile, WriteDisk, At
<1>2. /\ task[t].guard = "write" /\ Res(t) \in Resource /\ task[t].pc \in SetPC \ {"validate"}
      /\ Locking(task[t]) /\ Op(t) = "delete_resource"
  BY <1>1, SetFacts DEF SetPC, DeletePC
<1>3. CASE disk[Res(t)] # Absent
  <2>1. disk' = [disk EXCEPT ![Res(t)] = Absent] /\ Goto(t, "unregister")
    BY <1>3 DEF RemoveFile, WriteDisk
  <2>2. "unregister" \in (SetPC \ {"validate"}) \cup {"snapshot"}
    BY DEF SetPC
  <2>3. /\ Moves(t) /\ LockOK(task'[t])
        /\ task'[t].pc = "unregister" /\ task'[t].req = task[t].req
        /\ ~NeedsSnapshot(task'[t].req.op, task'[t].pc)
    BY <1>1, <1>2, <2>1, <2>2, SetGoes DEF CreatePC
  <2>4. FileOK(task'[t], disk', resources')
    BY <2>3 DEF FileOK
  <2>5. DeletesWhole => disk[Res(t)] \in Snapshot
    BY <1>1, <1>2, <1>3 DEF DeletesWhole, At, Inv, TypeOK, FileContent
  <2>6. LockInv'
    <3>1. Absent \in FileContent /\ task'[t].pc \in UpdatingPC
      BY <2>3 DEF FileContent, UpdatingPC
    <3> QED
      BY <1>1, <1>2, <2>1, <2>3, <2>4, <3>1, DiskLock
  <2>7. DeletesWhole => Contents[Res(t)] # Absent
    BY <1>2, <2>5, AbsentAssumption DEF Contents
  <2>8. DeletesWhole => Promise!Applies(Promised(task[t].req), Contents[Res(t)])
    BY <1>2, <2>7, PromisedIs DEF Promise!Applies, Op
  <2>9. Promise!Effect(Promised(task[t].req), Contents[Res(t)]) = Absent
    BY <1>2, PromisedIs DEF Promise!Effect, Op
  <2>10. Contents' = [Contents EXCEPT ![Res(t)] = Absent]
    BY <1>2, <2>1, AbsentAssumption DEF Contents, Inv, TypeOK
  <2>11. AtomicStatus(task[t]) = "waiting" /\ AtomicStatus(task'[t]) = "applied"
    <3>1. Locking(task'[t])
      BY <1>2, <2>3 DEF Locking
    <3> QED
      BY <1>1, <1>2, <2>3, <3>1, StatusOf DEF WrittenPC
  <2>12. DeletesWhole => AtomicStep
    BY <1>1, <1>2, <2>3, <2>8, <2>9, <2>10, <2>11, WriteStep
  <2> QED
    BY <2>6, <2>12
<1>4. CASE disk[Res(t)] = Absent
  <2>1. Fail(t) /\ UNCHANGED disk
    BY <1>4 DEF RemoveFile
  <2> QED
    BY <1>1, <2>1, FailLock DEF UpdatingPC
<1> QED
  BY <1>3, <1>4

\* Unregister: the cache still has what is gone, but nobody can look.
LEMMA UnregisterAtomic ==
    ASSUME Inv, LockInv, NEW t \in Task, Unregister(t)
    PROVE  LockInv' /\ AtomicStep
<1>1. /\ task[t].pc = "unregister" /\ UNCHANGED <<disk, cache>>
      /\ resources' = resources \ {Res(t)} /\ Goto(t, "uncache")
  BY DEF Unregister, At
<1>2. /\ task[t].guard = "write" /\ task[t].pc \in SetPC \ {"validate"}
      /\ Op(t) = "delete_resource"
  BY <1>1, SetFacts DEF SetPC, DeletePC
<1>3. "uncache" \in (SetPC \ {"validate"}) \cup {"snapshot"}
  BY DEF SetPC
<1>4. /\ Moves(t) /\ LockOK(task'[t])
      /\ task'[t].pc = "uncache" /\ task'[t].req = task[t].req
      /\ ~NeedsSnapshot(task'[t].req.op, task'[t].pc)
      /\ task[t].pc # "done" /\ task'[t].pc # "done"
  BY <1>1, <1>2, <1>3, SetGoes DEF CreatePC
<1>5. FileOK(task'[t], disk', resources')
  BY <1>4 DEF FileOK
<1>6. ASSUME NEW r \in Resource, r = Res(t)
      PROVE  ResourceOK(r)'
  <2>1. BusyAt(r, UpdatingPC)'
    BY <1>4, <1>6 DEF BusyAt, Res, UpdatingPC
  <2> QED
    BY <1>1, <1>6, <2>1 DEF ResourceOK
<1>7. OnlyAt(Res(t))
  BY <1>1 DEF OnlyAt
<1>8. LockInv'
  BY <1>2, <1>4, <1>5, <1>6, <1>7, LockedStep
<1>9. AtomicStep
  BY <1>1, <1>4, OnTheWay DEF Contents, WrittenPC
<1> QED
  BY <1>8, <1>9

\* Uncache: the last trace of the file.
LEMMA UncacheAtomic ==
    ASSUME Inv, LockInv, NEW t \in Task, Uncache(t)
    PROVE  LockInv' /\ AtomicStep
<1>1. /\ task[t].pc = "uncache" /\ UNCHANGED <<disk, resources>>
      /\ cache' = [cache EXCEPT ![Res(t)] = NoEntry] /\ Goto(t, "snapshot")
  BY DEF Uncache, At
<1>2. task[t].guard = "write" /\ task[t].pc \in SetPC \ {"validate"}
  BY <1>1, SetFacts DEF SetPC
<1>3. /\ Moves(t) /\ LockOK(task'[t])
      /\ task'[t].pc = "snapshot" /\ task'[t].req = task[t].req
      /\ ~NeedsSnapshot(task'[t].req.op, task'[t].pc)
      /\ task[t].pc # "done" /\ task'[t].pc # "done"
  BY <1>1, <1>2, SetGoes DEF CreatePC, DeletePC
<1>4. FileOK(task'[t], disk, resources)
  BY <1>3 DEF FileOK
<1>5. LockInv'
  BY <1>1, <1>2, <1>3, <1>4, CachingLock
<1>6. AtomicStep
  BY <1>1, <1>3, OnTheWay DEF Contents, WrittenPC
<1> QED
  BY <1>5, <1>6

\* ValidateInitial comes before the lock.
LEMMA ValidateInitialAtomic ==
    ASSUME Inv, LockInv, NEW t \in Task, ValidateInitial(t)
    PROVE  LockInv' /\ AtomicStep
<1>1. /\ task[t].pc = "validate" /\ UNCHANGED <<disk, cache, resources>>
      /\ Goto(t, "acquire") \/ Fail(t)
  BY DEF ValidateInitial, At, storeVars
<1>2. Op(t) \in SetOps
  BY <1>1, TaskFacts DEF TaskInv, Allowed, SetPC, SetOps, Op
<1>3. CASE Goto(t, "acquire")
  <2> DEFINE w == [task[t] EXCEPT !.pc = "acquire"]
  <2>1. task'[t] = w /\ OthersStay(t)
    BY <1>3 DEF Goto, Inv, TypeOK, OthersStay
  <2>2. w.pc = "acquire" /\ w.req = task[t].req /\ w.guard = task[t].guard
    BY TaskFacts DEF TaskState
  <2> HIDE DEF w
  <2>3. Moves(t)
    BY <1>1, <2>1, <2>2 DEF Moves
  <2>4. LockOK(w)
    BY <1>1, <1>2, <2>2
    DEF LockInv, LockOK, Serving, CreatePC, DeletePC, LockedOps, Op
  <2>5. FileOK(w, disk, resources)
    BY <2>2 DEF FileOK, NeedsSnapshot, UpdatePC, RefreshPC
  <2>6. LockInv'
    BY <1>1, <2>1, <2>3, <2>4, <2>5, QuietLock DEF UpdatingPC
  <2>7. AtomicStep
    BY <1>1, <2>1, <2>2, <2>3, OnTheWay DEF Contents, WrittenPC
  <2> QED
    BY <2>6, <2>7
<1>4. CASE Fail(t)
  BY <1>1, <1>4, FailLock DEF UpdatingPC
<1> QED
  BY <1>1, <1>3, <1>4

\* resource_service.rs.
LEMMA ManageSetAtomic ==
    ASSUME Inv, LockInv, NEW t \in Task, ManageSet(t)
    PROVE  LockInv' /\ (DeletesWhole => AtomicStep)
<1>1. CASE FillFails(t)
  <2>1. /\ task[t].pc = "fill" /\ Fail(t)
        /\ UNCHANGED <<disk, cache, resources>>
    BY <1>1 DEF FillFails, At, storeVars
  <2> QED
    BY <2>1, FailLock DEF UpdatingPC
<1> QED
  BY <1>1, ValidateInitialAtomic, CreateFileAtomic, FillFileAtomic, RegisterAtomic,
     CacheNewAtomic, RemoveFileAtomic, UnregisterAtomic, UncacheAtomic DEF ManageSet

\* Every step of a request.
LEMMA RequestAtomic ==
    ASSUME Undisturbed, Inv, LockInv, NEW t \in Task, RequestStep(t),
           NoBareReads \/ CacheOK'
    PROVE  LockInv' /\ (DeletesWhole => AtomicStep)
  BY SubmitAtomic, AcquireAtomic, LoadAtomic, UpdateAtomic, RefreshAtomic,
     ManageSetAtomic, PutSchemaAtomic DEF RequestStep, Handle

-----------------------------------------------------------------------------

\* The watcher takes no part in the store: it writes no file, and what it caches
\* is what is in the file.
LEMMA WatchAtomic ==
    ASSUME Inv, LockInv, WatcherStep, WatcherCachesFile, WatcherRunning \/ Idling
    PROVE  LockInv' /\ AtomicStep
<1>1. Watch /\ UNCHANGED <<disk, task>>
  BY WatchLeaves DEF WatcherStep
<1>2. WatcherRunning
  BY <1>1, IdleWatcher
<1>3. UNCHANGED Promise!vars
  BY <1>1 DEF Promise!vars
<1>4. \A r, P : BusyAt(r, P)' <=> BusyAt(r, P)
  BY <1>1 DEF BusyAt, Res
<1>5. ASSUME NEW r \in Resource, cache'[r] # NoEntry
      PROVE  cache'[r].value = disk[r] \/ cache'[r] = cache[r]
  <2>1. CASE EvictBroken
    BY <1>5, <2>1 DEF EvictBroken, Inv, TypeOK
  <2>2. CASE RefreshCache /\ ~SchemaTouched
    <3> DEFINE e == [arc |-> FreshArc, value |-> watcher.value, rev |-> Unvalidated]
    <3>1. cache' = [cache EXCEPT ![watcher.path] =
                        IF watcher.value = NoValue THEN NoEntry ELSE e]
      BY <2>2 DEF RefreshCache
    <3>2. e.value = watcher.value
      OBVIOUS
    <3>3. watcher.value \in {NoValue, disk[watcher.path]}
      BY <2>2 DEF WatcherCachesFile
    <3> HIDE DEF e
    <3> QED
      BY <1>5, <3>1, <3>2, <3>3 DEF Inv, TypeOK
  <2>3. CASE ~EvictBroken /\ ~(RefreshCache /\ ~SchemaTouched)
    BY <1>1, <2>3, WatchLeaves DEF RefreshCache
  <2> QED
    BY <2>1, <2>2, <2>3
<1>6. LockInv'
  <2>1. \A u \in Task : LockOK(task'[u]) /\ FileOK(task'[u], disk', resources')
    BY <1>1, <1>2 DEF LockInv, FileOK, Untold
  <2>2. Exclusive'
    BY <1>1 DEF LockInv, Exclusive, Res
  <2>3. \A r \in Resource : ResourceOK(r)'
    BY <1>1, <1>2, <1>4, <1>5 DEF LockInv, ResourceOK, Untold
  <2> QED
    BY <2>1, <2>2, <2>3 DEF LockInv
<1> QED
  BY <1>3, <1>6 DEF AtomicStep

\* A server that has just started has the store that its folder makes.
LEMMA InitAtomic ==
    ASSUME Init
    PROVE  LockInv /\ Promise!Init
<1>1. /\ \A t \in Task : task[t] = IdleTask
      /\ \A r \in Resource : cache[r] = NoEntry
      /\ resources = InitialResources /\ disk = InitialDisk
  BY DEF Init
<1>2. IdleTask.pc = "idle" /\ IdleTask.guard = "none" /\ IdleTask.req = NoRequest
  BY DEF IdleTask
<1>3. \A t \in Task : LockOK(task[t]) /\ FileOK(task[t], disk, resources)
  BY <1>1, <1>2 DEF LockOK, FileOK, Serving, CreatePC, DeletePC
<1>4. Exclusive
  BY <1>1, <1>2 DEF Exclusive
<1>5. \A r \in Resource : ResourceOK(r)
  BY <1>1 DEF ResourceOK, Untold, InitialReady
<1>6. LockInv
  BY <1>1, <1>3, <1>4, <1>5 DEF LockInv
<1>7. Contents \in Promise!Content
  <2>1. Promise!Snapshot = Snapshot
    BY DEF Promise!Snapshot, Snapshot, Promise!Id, Id, Promise!Item, Item
  <2> QED
    BY <2>1 DEF Contents, Promise!Content
<1>8. \A t \in Task : ~Locking(task[t])
  BY <1>1, <1>2 DEF Locking
<1>9. Requests = [t \in Task |-> NoRequest]
  BY <1>8 DEF Requests, AtomicRequest
<1>10. States = [t \in Task |-> "idle"]
  BY <1>8, StatusOf DEF States
<1>11. Answers = [t \in Task |-> [r \in Resource |-> Absent]]
  BY <1>1, <1>2, AnswerOf DEF Answers
<1>12. Promise!Init
  BY <1>7, <1>9, <1>10, <1>11
  DEF Promise!Init, Promise!NoDocuments, Contents, Requests, States, Answers, AtomicRequest
<1> QED
  BY <1>6, <1>12

\* Every step is one of the store, or none.
LEMMA StepAtomic ==
    ASSUME Undisturbed, Inv, LockInv, NoBareReads \/ CacheOK', WatcherRunning \/ Idling,
           [Next]_vars, [WatcherCachesFile]_vars
    PROVE  LockInv' /\ (DeletesWhole => AtomicStep)
<1>1. CASE \E t \in Task : RequestStep(t)
  BY <1>1, RequestAtomic
<1>2. CASE WatcherStep /\ WatcherCachesFile
  BY <1>2, WatchAtomic
<1>3. CASE ExternalEdit
  <2>1. edits \subseteq Edits
    BY DEF Inv, TypeOK
  <2> QED
    BY <1>3, <2>1 DEF ExternalEdit, Undisturbed
<1>4. CASE UNCHANGED vars
  <2>1. LockInv'
    BY <1>4 DEF vars, LockInv, ResourceOK, BusyAt, Exclusive, Res
  <2>2. UNCHANGED Promise!vars
    BY <1>4 DEF vars, Promise!vars
  <2> QED
    BY <2>1, <2>2 DEF AtomicStep
<1> QED
  BY <1>1, <1>2, <1>3, <1>4 DEF Next, Rest

\* A read without the lock does no harm: there is none, or what it finds in
\* the cache is what is in the file.
CacheTrusted == NoBareReads \/ CacheOK

\* In a folder of its own the server finds the files in its cache.
LEMMA AlwaysTrusted ==
    ASSUME Alone \/ NoBareReads
    PROVE  Spec /\ CachesFile => []CacheTrusted
<1>1. CASE Alone
  <2>1. FolderInv => CacheTrusted
    BY DEF FolderInv, CacheTrusted
  <2> QED
    BY <1>1, <2>1, FolderInvariance, PTL
<1>2. CASE NoBareReads
  <2>1. CacheTrusted
    BY <1>2 DEF CacheTrusted
  <2> QED
    BY <2>1, PTL
<1> QED
  BY <1>1, <1>2

\* A watcher that does not run has nothing to do.
WatcherOff == WatcherRunning \/ Idling

LEMMA OffInvariance == Spec => []WatcherOff
<1>1. CASE WatcherRunning
  <2>1. WatcherOff
    BY <1>1 DEF WatcherOff
  <2> QED
    BY <2>1, PTL
<1>2. CASE ~WatcherRunning
  <2>1. Idling => WatcherOff
    BY DEF WatcherOff
  <2> QED
    BY <1>2, <2>1, IdlingInvariance, PTL
<1> QED
  BY <1>1, <1>2

\* The locks keep the writers of a file apart from everybody who has read it.
THEOREM LockInvariance ==
    ASSUME Undisturbed, Alone \/ NoBareReads
    PROVE  Spec /\ CachesFile => []LockInv
<1>1. Spec /\ CachesFile => []CacheTrusted
  BY AlwaysTrusted
<1>2. Init => LockInv
  BY InitAtomic
<1>3. Inv /\ CacheTrusted' /\ WatcherOff /\ LockInv /\ [Next]_vars /\ [WatcherCachesFile]_vars
          => LockInv'
  BY StepAtomic DEF CacheTrusted, WatcherOff
<1> QED
  BY <1>1, <1>2, <1>3, Invariance, OffInvariance, PTL DEF Spec, CachesFile

\* The server is the atomic store: every request that locks its resource takes
\* effect at one moment between its arrival and its answer, creations and
\* deletions of resources included, with its own watcher beside it.  Two things
\* that the watcher makes possible are excluded: that it caches what a write
\* has replaced since (watcher.rs:211), and that a torn file, which it has
\* published as a resource, is deleted.  Reads without the lock are allowed
\* where no resource comes or goes.
THEOREM FolderIsAtomic ==
    ASSUME Undisturbed, Alone \/ NoBareReads
    PROVE  Spec /\ CachesFile /\ []DeletesWhole => AtomicFolder
<1>1. Spec /\ CachesFile => []CacheTrusted
  BY AlwaysTrusted
<1>2. Init => Promise!Init
  BY InitAtomic
<1>3. Inv /\ CacheTrusted' /\ WatcherOff /\ LockInv /\ DeletesWhole
          /\ [Next]_vars /\ [WatcherCachesFile]_vars => [Promise!Next]_(Promise!vars)
  BY StepAtomic DEF CacheTrusted, WatcherOff, AtomicStep
<1> QED
  BY <1>1, <1>2, <1>3, Invariance, LockInvariance, OffInvariance, PTL
  DEF Spec, CachesFile, AtomicFolder, Promise!Spec

\* Where the watcher does not run and every file could be read at the start,
\* nothing of the kind happens: the server is the atomic store as it is.
COROLLARY UnwatchedIsAtomic ==
    ASSUME Undisturbed, Untold, Alone \/ NoBareReads
    PROVE  Spec => AtomicFolder
<1>1. Inv /\ LockInv => DeletesWhole
  <2> SUFFICES ASSUME Inv, LockInv, NEW t \in Task, At(t, "remove")
               PROVE  disk[Res(t)] \in Snapshot
    BY GarbageAssumption DEF DeletesWhole
  <2>1. task[t].guard = "write" /\ Res(t) \in Resource
    BY SetFacts DEF SetPC, At
  <2>2. Res(t) \in resources
    BY <2>1 DEF LockInv, FileOK, Res, At
  <2>3. ~BusyAt(Res(t), {"unregister"})
    BY <2>1, NobodyElse DEF BusyAt, UpdatingPC, At
  <2> QED
    BY <2>1, <2>2, <2>3 DEF LockInv, ResourceOK
<1>2. Spec => CachesFile
  BY Unwatched DEF Untold
<1> QED
  BY <1>1, <1>2, Invariance, LockInvariance, FolderIsAtomic, PTL
=============================================================================
