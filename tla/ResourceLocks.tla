---------------------------- MODULE ResourceLocks ----------------------------
(***************************************************************************)
(* AppState.resource_locks (app.rs): a table of read-write locks, one per  *)
(* name, made when a name is first locked and never taken out.  The lock   *)
(* itself is tokio's: it serves requests in the order in which they came,  *)
(* so a reader that comes after a waiting writer waits too.                *)
(***************************************************************************)
EXTENDS Naturals

CONSTANTS
    Task,    \* the requests that take locks
    Name,    \* names that can be locked
    Rank     \* their order as strings, the order of a BTreeSet

Mode == {"read", "write"}

\* Somebody in line for a lock, or served: who was in line when they came.
Waiter == [task : Task, mode : Mode, ahead : SUBSET Task]

ASSUME RankAssumption ==
    /\ Rank \in [Name -> Nat]
    /\ \A m, n \in Name : Rank[m] = Rank[n] => m = n

VARIABLE locks   \* the table: whether a lock was made, and who is in line

LockTable == [Name -> [made : BOOLEAN, line : SUBSET Waiter]]
NoLock == [made |-> FALSE, line |-> {}]

Line(n) == locks[n].line

\* The fair lock: a writer waits for all who came before, a reader for the
\* writers among them.
IsServed(w, line) ==
    \A v \in line :
        v.task \in w.ahead => w.mode = "read" /\ v.mode = "read"

\* Task t has been given what it asked for under the name n.
Granted(t, n) ==
    /\ \E w \in Line(n) : w.task = t
    /\ \A w \in Line(n) : w.task = t => IsServed(w, Line(n))

NewWaiter(t, n, mode) ==
    [task |-> t, mode |-> mode, ahead |-> {w.task : w \in Line(n)}]

Enqueue(t, n, mode) ==
    locks' = [locks EXCEPT ![n] = [made |-> TRUE, line |-> @.line \cup {NewWaiter(t, n, mode)}]]

\* resource_lock finds the lock in the table ...
LockExists(n) == locks[n].made

\* Mutant: locks.insert, a new lock takes the place of the one made meanwhile.
InsertLockAnyway(t, n, mode) ==
    locks' = [locks EXCEPT ![n] =
                 [made |-> TRUE, line |-> {[NewWaiter(t, n, mode) EXCEPT !.ahead = {}]}]]

\* ... or makes it: entry().or_insert_with keeps one made meanwhile.
InsertLock(t, n, mode) == Enqueue(t, n, mode)

\* The guards that t has under these names are dropped.
Release(t, names) ==
    locks' = [n \in Name |->
                 IF n \in names
                 THEN [locks[n] EXCEPT !.line =
                          {[w EXCEPT !.ahead = @ \ {t}] : w \in {v \in @ : v.task # t}}]
                 ELSE locks[n]]

\* Mutant: several resources are locked in the order they are named in.
IsNextLockAsNamed(n, todo, named) ==
    \E i \in DOMAIN named :
        named[i] = n /\ \A j \in 1..(i - 1) : named[j] \notin todo

\* read_locks_for_resources: each name once, in the order of the names.
IsNextLock(n, todo, named) ==
    n \in todo /\ \A m \in todo : Rank[n] <= Rank[m]
=============================================================================
