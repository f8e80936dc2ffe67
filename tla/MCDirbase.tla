------------------------------ MODULE MCDirbase ------------------------------
(***************************************************************************)
(* Small instances of Dirbase: two resources, of which one may declare a   *)
(* foreign key to the other, one column besides the key, and a few ids.    *)
(* Each run has a folder to start from, requests, edits and faults.        *)
(***************************************************************************)
EXTENDS Dirbase, TLC

CONSTANTS users, posts, name, t1, t2, t3, t4

Doc(S, item) == [i \in Id |-> IF i \in S THEN item ELSE NoItem]
Named == {name}
Bare == {}

\* Overlays: users need a name; posts refer to users; both.
NameRequired == [required |-> Named, target |-> NoTarget]
RefersTo(r) == [required |-> {}, target |-> r]
Declares(r, table) == [NoOverlay EXCEPT ![r] = table]

Req(op, res) == [op |-> op, res |-> res, id |-> 2, item |-> Named,
                 doc |-> EmptyArray, overlay |-> NoOverlay]
ReqItem(op, res, item) == [Req(op, res) EXCEPT !.item = item]
PutOverlay(o) == [Req("put_schema", posts) EXCEPT !.overlay = o]

NoFolderSchema == Absent
NoEdits == {}
NoFaults == {}
Set(path, content) == [path |-> path, content |-> content]

\* Folders: one user with id 2 and no column but the key.
Folder(u, p) == [r \in Resource |-> IF r = users THEN u ELSE p]
OneUser == Folder(Doc({2}, Bare), Doc({}, Bare))
UserAndObject == Folder(Doc({2}, Bare), Doc({Root}, Named))
OnlyUsers == Folder(Doc({2}, Bare), Absent)
BrokenPosts == Folder(Doc({2}, Bare), Garbage)

\* updates: writers of users, writers of an object, readers, and a change of
\* the declared schema.
UserUpdates ==
    {ReqItem("create_item", users, Bare), ReqItem("patch_item", users, Named),
     ReqItem("replace_item", users, Bare), Req("delete_item", users)}
UserReads == {Req("read", users), Req("relation_read", users)}
SchemaPuts == {PutOverlay(Declares(users, NameRequired))}

RenameFails == {"rename"}

UpdatesWorkload ==
    [t \in Task |-> CASE t = t1 -> UserUpdates
                      [] t = t2 -> {ReqItem("create_item", users, Named),
                                    ReqItem("replace_object", posts, Bare)}
                      [] t = t3 -> UserReads
                      [] OTHER -> SchemaPuts]

\* resource_set: resources are created and deleted by requests and by others.
SetWorkload ==
    [t \in Task |-> IF t = t1
                    THEN {Req("delete_resource", users), Req("create_resource", posts)}
                    ELSE {Req("create_resource", posts), Req("relation_read", posts)}]
UserVanishes == {Set(users, Absent)}
TornFiles == {"create"}

\* watched: the folder and the schema are edited while the server only reads.
ReadWorkload == [t \in Task |-> UserReads]
MixedUsers == [Doc({1, 2}, Bare) EXCEPT ![1] = Named]
WatchedEdits == {Set(users, Garbage), Set(users, MixedUsers),
                 Set(SchemaFile, Declares(users, NameRequired)),
                 Set(SchemaFile, Absent)}

Readers == Permutations(Task)

\* recovery: writers while an unreadable file is repaired.
RecoveryWorkload ==
    [t \in Task |-> CASE t = t1 -> {ReqItem("create_item", users, Named),
                                    Req("delete_resource", users)}
                      [] OTHER -> {Req("read", posts), Req("create_resource", users),
                                   PutOverlay(Declares(posts, RefersTo(users)))}]
SetFaults == {"rename", "sync", "create", "schema", "scan"}
Repair == {Set(posts, Doc({1}, Named))}

\* The workloads of the disagreements.
TwoPosts == [t \in Task |-> {ReqItem("create_item", users, Named)}]
BreakOne == {Set(posts, Garbage), Set(users, Doc({1, 2}, Named))}
=============================================================================
