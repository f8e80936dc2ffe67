----------------------------- MODULE MCLiveServer -----------------------------
(***************************************************************************)
(* A folder with teams; a resource whose name is spelt alike in GraphQL,   *)
(* which comes and goes; and users, which are cloned.                      *)
(***************************************************************************)
EXTENDS LiveServer

teams == "te_ams"
spelt == "te-ams"
users == "users"

MCTableOrder == <<spelt, teams, users>>
MCRelationOrder ==
    FlattenSeq([i \in 1..3 |->
        <<<<MCTableOrder[i]>>>> \o [j \in 1..3 |-> <<MCTableOrder[i], MCTableOrder[j]>>]])
MCSingular == [t \in {teams, spelt, users} |-> t]
MCReferencePrefix == <<>>
MCKeyCandidates == [t \in {teams, spelt, users} |-> <<"id">>]
MCLiteralOf == [type \in {"date", "datetime", "uuid", "big_integer", "decimal"} |-> {}]
MCNumberText == 0 :> "0" @@ 1 :> "1" @@ 2 :> "2"

\* The two names become one.
Spelling(t) == IF t = spelt THEN teams ELSE t
MCNamesOf ==
    [t \in {teams, spelt, users} |->
        [type |-> Spelling(t), root |-> <<Spelling(t)>>,
         query |-> <<Spelling(t), "Query">>, byId |-> <<Spelling(t), "ById">>]]
MCFieldName == [c \in {"id", "mark"} |-> <<c>>]
MCRelationStem == [c \in {"id", "mark"} |-> c]
MCMixedArrays == {}
MCObjectOf == [t \in {teams, spelt, users} |-> <<>>]

Row(id) == "id" :> id
Marked(id, mark) == ("id" :> id) @@ ("mark" :> mark)

MCTransient == {spelt}
MCFolder == teams :> <<Row(Number("1"))>>
MCEdits == (teams :> {<<Row(Str("a"))>>}) @@ (spelt :> {}) @@ (users :> {})
MCRequest ==
    {[op |-> "patch_item", table |-> teams, id |-> "1", item |-> "mark" :> Number("1")]}
MCOverlays ==
    {users :> DeclaredTable(NoKind, NoKey,
        "mark" :> [type |-> "integer", nullable |-> TRUE, check |-> NoCheck], <<>>, {}, <<>>)}

MCRemoteRows ==
    {<<Row(Number("1")), Row(Number("2"))>>, <<Marked(Number("2"), Str("x"))>>}
MCFetch ==
    {[kind |-> "collection", id |-> "", refresh |-> FALSE],
     [kind |-> "collection", id |-> "", refresh |-> TRUE],
     [kind |-> "item", id |-> "1", refresh |-> FALSE],
     [kind |-> "item", id |-> "2", refresh |-> TRUE]}

MCSymmetry ==
    Permutations(Client) \cup Permutations(Handler)
=============================================================================
