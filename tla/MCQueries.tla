------------------------------ MODULE MCQueries ------------------------------
(***************************************************************************)
(* Users, their posts, and who likes which post.  Two of three users have  *)
(* every combination of ages: a number, null, or none.                     *)
(***************************************************************************)
EXTENDS QuerySessions

users == "users"
posts == "posts"
likes == "likes"

MCNumberRank == "1" :> 10 @@ "1.5" :> 15 @@ "2" :> 20 @@ "3" :> 30 @@ "4" :> 40 @@ "10" :> 100
\* In byte order, the list of an `in` included.
MCTexts == <<"1", "1.5", "10", "2", "2,10", "3", "4", "Ada", "Bob", "d", "false", "null", "true">>
MCTextRank == [text \in Range(MCTexts) |-> CHOOSE i \in DOMAIN MCTexts : MCTexts[i] = text]
MCTextMatch ==
    [op \in {"contains", "startsWith", "endsWith"} |->
        IF op = "contains" THEN {<<"Ada", "d">>} ELSE {}]

Path(column) == <<column>>
MCReferences ==
    users :> <<>>
    @@ posts :> ("user_id" :> [table |-> users, column |-> "id"])
    @@ likes :> ("user_id" :> [table |-> users, column |-> "id"]
                 @@ "post_id" :> [table |-> posts, column |-> "id"])
MCTypes ==
    users :> (Path("id") :> "integer" @@ Path("name") :> "string"
              @@ Path("age") :> "integer" @@ Path("active") :> "boolean")
    @@ posts :> (Path("id") :> "integer" @@ Path("user_id") :> "integer")
    @@ likes :> (Path("user_id") :> "integer" @@ Path("post_id") :> "integer")

User(id, name, active) ==
    Path("id") :> Number(id) @@ Path("name") :> Str(name) @@ Path("active") :> active
Post1(id, user) == Path("id") :> Number(id) @@ Path("user_id") :> user
Like(user, post) == Path("user_id") :> Number(user) @@ Path("post_id") :> Number(post)

People == <<User("1", "Bob", Bool("true")), User("2", "Ada", Null), User("3", "Bob", Bool("false"))>>
Age(row, v) == IF v.kind = "json" THEN row ELSE (Path("age") :> v) @@ row
NoAge == Json("json", "none")
MCPosts == <<Post1("1", Number("1")), Post1("2", Null), Post1("3", Number("1")), Post1("4", Number("3"))>>
MCLikes == <<Like("1", "1"), Like("1", "4"), Like("2", "4"), Like("1", "1")>>
MCFolders ==
    {users :> [i \in 1..3 |-> Age(People[i], ages[i])] @@ posts :> MCPosts @@ likes :> MCLikes :
        ages \in {<<first, Number("10"), last>> :
                     first, last \in {Number("2"), Number("3"), Null, NoAge}}}
MCNewRows == <<User("4", "Ada", Null)>>

Ask(via, table, where, sort, limit, offset) ==
    [via |-> via, table |-> table, alias |-> table, joins |-> <<>>, where |-> where,
     sort |-> sort, limit |-> limit, offset |-> offset]
JoinUsers(on, sort, limit) ==
    [via |-> "sql", table |-> posts, alias |-> "p",
     joins |-> <<[resource |-> users, alias |-> users, on |-> on]>>,
     where |-> <<[op |-> "between", path |-> <<users, "age">>, low |-> "2", high |-> "3"]>>,
     sort |-> sort, limit |-> limit, offset |-> 0]
Ascending(column) == SortColumn(Path(column), FALSE)
Descending(column) == SortColumn(Path(column), TRUE)

MCRequests ==
    {Ask("rest", users, <<>>, <<>>, 2, 0),
     Ask("rest", users, <<Condition(Path("age"), "gte", "2", {})>>, <<Ascending("id")>>, 2, 0),
     Ask("rest", users, <<>>, <<Descending("name"), Ascending("age")>>, 2, 0),
     Ask("rest", users, <<>>, <<>>, 9, 0),
     Ask("rest", users, <<Condition(Path("age"), "in", "2,10", {"2", "10"})>>, <<>>, 2, 0),
     Ask("graphql", users, <<Condition(Path("age"), "ne", "null", {}),
                             Condition(Path("name"), "eq", "Bob", {})>>, <<>>, 1, 0),
     Ask("sql", users, <<>>, <<Ascending("id")>>, 2, 1),
     [Ask("sql", users, <<[op |-> "like", path |-> <<"u", "name">>, value |-> "d",
                           leading |-> TRUE, trailing |-> TRUE]>>,
          <<SortColumn(<<"u", "age">>, FALSE)>>, 1, 0) EXCEPT !.alias = "u"],
     JoinUsers(<<<<"p", "user_id">>, <<users, "id">>>>, <<Descending("id")>>, 2),
     JoinUsers(<<<<users, "id">>, <<"p", "user_id">>>>, <<>>, 3),
     JoinUsers(<<<<users, "id">>, <<"p", "id">>>>, <<>>, 3)}
MCGraphqlRequests ==
    {Ask("graphql", users, <<Condition(Path("age"), "in", "2,10", {"2", "10"})>>, <<>>, 2, 0)}

MCProbePaths == {Path("id"), Path("age"), Path("name"), Path("active")}
MCProbeTexts == {"1.5", "2", "3", "10", "null", "true", "Bob"}
=============================================================================
