---------------------------- MODULE MCSchemaServer ----------------------------
(***************************************************************************)
(* Two keyed tables and two tables that join them, which overlays declare, *)
(* restrict and relate by hand.                                            *)
(***************************************************************************)
EXTENDS SchemaServer

students == "students"
courses == "course"
attends == "attends"
teaches == "teaches"

MCTableOrder == <<attends, courses, students, teaches>>
\* Each table by itself, then through the others.
MCRelationOrder ==
    FlattenSeq([i \in 1..4 |->
        <<<<MCTableOrder[i]>>>> \o [j \in 1..4 |-> <<MCTableOrder[i], MCTableOrder[j]>>]])
MCSingular ==
    (attends :> "attend") @@ (courses :> courses)
    @@ (students :> "student") @@ (teaches :> "teach")
MCReferencePrefix == ("course_id" :> "course") @@ ("student_id" :> "student")
MCKeyCandidates ==
    [t \in {attends, courses, students, teaches} |->
        IF t = students THEN <<"id", "student_id">>
        ELSE IF t = courses THEN <<"id", "course_id">> ELSE <<"id">>]
MCNamesOf ==
    [t \in {attends, courses, students, teaches} |->
        [type |-> t, root |-> <<t>>, query |-> <<t, "Query">>, byId |-> <<t, "ById">>]]
MCFieldName == [c \in {"course_id", "id", "mark", "student_id"} |-> <<c>>]
MCRelationStem ==
    ("course_id" :> "course") @@ ("student_id" :> "student") @@ ("id" :> "id")
    @@ ("mark" :> "mark")
MCLiteralOf == [type \in {"date", "datetime", "uuid", "big_integer", "decimal"} |-> {"1", "2"}]
MCNumberText == 0 :> "0" @@ 1 :> "1" @@ 2 :> "2" @@ 3 :> "3"

Keyed(id) == "id" :> id
Link(course, student) == ("course_id" :> course) @@ ("student_id" :> student)
Marked(id, mark) == ("id" :> id) @@ ("mark" :> mark)

\* Students get a mark or one key twice, or something that is no row; courses
\* stop being an array.
MCEdits ==
    (students :> {<<Marked(Number("1"), Number("2")) @@ ("course_id" :> Number("1"))>>,
                  <<Marked(Number("2"), Number("1")), Keyed(Number("2"))>>, NoTable})
    @@ (courses :> {NoTable})
    @@ (attends :> {})
    @@ (teaches :> {<<Link(Number("1"), Number("1"))>>})

\* What is in the file of courses when it is no array.
MCObjectOf ==
    [t \in {attends, courses, students, teaches} |->
        IF t = courses THEN Marked(Null, Number("1")) ELSE <<>>]

\* What is in the file of students when it is no array of objects.
MCMixedArrays == {students}

MCTransient == {teaches}

MCFolder ==
    (students :> <<>>) @@ (courses :> <<Keyed(Number("1"))>>)
    @@ (attends :> <<Link(Number("1"), Number("1"))>>)

Req(op, id, item) == [op |-> op, table |-> students, id |-> id, item |-> item]
NoItem == <<>>
MCRequest ==
    {Req("create_item", "1", "mark" :> Number("2")),
     Req("replace_item", "1", "mark" :> Str("x")),
     Req("patch_item", "2", Marked(Number("1"), Null)),
     Req("delete_item", "2", NoItem)}

Col(type, nullable) == [type |-> type, nullable |-> nullable, check |-> NoCheck]
Checked(type, check) == [type |-> type, nullable |-> TRUE, check |-> check]
Marks == [types |-> {"integer"}, texts |-> {"2"}]

MCOverlays ==
    {\* a key for students, whose marks are checked
     students :> DeclaredTable("object", "id",
         ("id" :> Col("integer", FALSE)) @@ ("mark" :> Checked("integer", Marks)),
         <<>>, {}, <<>>),
     \* a check on a type that it does not fit
     students :> DeclaredTable(NoKind, NoKey, "mark" :> Checked("json", Marks),
         <<>>, {}, <<>>),
     \* attends does not refer to students, and to courses by declaration
     attends :> DeclaredTable(NoKind, NoKey, <<>>,
         "course_id" :> [table |-> courses, column |-> "id"], {"student_id"},
         <<<<"course_id", "student_id">>>>),
     \* students refer to a course by their mark
     students :> DeclaredTable(NoKind, NoKey, <<>>,
         "mark" :> [table |-> courses, column |-> "id"], {}, <<>>)}
=============================================================================
