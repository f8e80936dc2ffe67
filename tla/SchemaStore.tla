----------------------------- MODULE SchemaStore -----------------------------
(***************************************************************************)
(* The schema store of app.rs: the declared overlay, the schema inferred   *)
(* from the data, their merge, and the revision given to each declared     *)
(* table so that cached snapshots know which declaration admitted them.    *)
(* Every operation runs under the store's own lock, so each is an operator *)
(* from the old store to the new one.                                      *)
(***************************************************************************)
EXTENDS Documents

CONSTANT MaxRevision    \* bound: the code's counter is a wrapping u64

ASSUME FiniteResources == IsFiniteSet(Resource)
ASSUME MaxRevisionAssumption == MaxRevision \in Nat

Store ==
    [declared : Overlay,
     inferred : Tables,
     merged : Tables,
     revisions : [Resource -> Nat],
     nextRevision : Nat]

NoOverlay == [r \in Resource |-> NoTable]
NoTables == [r \in Resource |-> NoTable]

\* merge_schemas rejects a foreign key to a table nobody knows.
Mergeable(declared, inferred) ==
    \A r \in Resource :
        declared[r] # NoTable =>
            \/ declared[r].target = NoTarget
            \/ declared[declared[r].target] # NoTable
            \/ inferred[declared[r].target] # NoTable

\* The effective table: inferred columns overlaid with the declared ones.
Columns(table) == IF table = NoTable THEN {} ELSE table
Required(table) == IF table = NoTable THEN {} ELSE table.required
Merge(declared, inferred) ==
    [r \in Resource |->
        IF declared[r] = NoTable /\ inferred[r] = NoTable
        THEN NoTable
        ELSE Columns(inferred[r]) \cup Required(declared[r])]

\* SchemaStore::new
NewStore(declared, inferred) ==
    [declared |-> declared,
     inferred |-> inferred,
     merged |-> Merge(declared, inferred),
     revisions |-> [r \in Resource |-> 0],
     nextRevision |-> 0]

\* The inferred schema is assigned before the merge that may fail.
ReplaceInferred(store, inferred) ==
    [store EXCEPT
        !.inferred = inferred,
        !.merged = IF Mergeable(store.declared, inferred)
                   THEN Merge(store.declared, inferred) ELSE @]

\* Only the tables that differ get new revisions, one after the other (the
\* code goes through the names in alphabetical order, which nothing depends
\* on: revisions are only compared for one resource).
ChangedTables(store, declared) ==
    {r \in Resource : store.declared[r] # declared[r]}
Ranking(S) ==
    CHOOSE rank \in [S -> 1..Cardinality(S)] :
        \A r, q \in S : rank[r] = rank[q] => r = q
\* Mutant: a changed table keeps its revision.
NewRevisionsKept(store, declared) == store.revisions

NewRevisions(store, declared) ==
    LET changed == ChangedTables(store, declared)
        rank == Ranking(changed)
    IN  [r \in Resource |->
            IF r \in changed THEN store.nextRevision + rank[r]
            ELSE store.revisions[r]]

\* The overlay is merged first: on a merge error nothing is assigned.
CanReplaceDeclared(store, declared) == Mergeable(declared, store.inferred)
ReplaceDeclared(store, declared) ==
    [store EXCEPT
        !.declared = declared,
        !.merged = Merge(declared, store.inferred),
        !.revisions = NewRevisions(store, declared),
        !.nextRevision = @ + Cardinality(ChangedTables(store, declared))]

\* The guard that keeps a run within MaxRevision.
RevisionsLeft(store, declared) ==
    store.nextRevision + Cardinality(ChangedTables(store, declared)) <= MaxRevision
=============================================================================
