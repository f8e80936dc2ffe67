------------------------------ MODULE MCDbServer ------------------------------
(***************************************************************************)
(* Small instances of DbServer: two resources, of which one may come and   *)
(* go, items without columns and ids up to 2.                              *)
(***************************************************************************)
EXTENDS DbServer, TLC

CONSTANTS users, posts, dbFile, t1, t2, t3

RankOf == [n \in Name |-> CASE n = users -> 2 [] n = posts -> 1 [] OTHER -> 0]

Doc(S) == [i \in Id |-> IF i \in S THEN {} ELSE NoItem]
Req(op, names) == [op |-> op, names |-> names, id |-> 1, item |-> {}, doc |-> Doc({})]

\* A user and no posts; users and posts.
OnlyUsers == [r \in Resource |-> IF r = users THEN Doc({1}) ELSE Absent]
Both == [r \in Resource |-> Doc({1})]

ReadBoth == Req("read", <<users, posts>>)
ReadSwapped == Req("read", <<posts, users>>)

\* db_file: updates of one resource beside creations and deletions of the
\* other, and readers of both.
FileWorkload ==
    [t \in Task |->
        CASE t = t1 -> {Req("create_item", <<users>>), Req("delete_item", <<users>>),
                        Req("delete_resource", <<users>>), ReadSwapped}
          [] t = t2 -> {Req("create_resource", <<posts>>), Req("create_item", <<users>>),
                        Req("create_resource", <<users>>)}
          [] OTHER -> {ReadBoth, Req("create_item", <<posts>>),
                       Req("delete_resource", <<posts>>)}]
AllFaults == {"write", "refresh"}
=============================================================================
