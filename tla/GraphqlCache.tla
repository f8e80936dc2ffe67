----------------------------- MODULE GraphqlCache -----------------------------
(***************************************************************************)
(* AppState::graphql_schema: requests take the schema from the cache or    *)
(* build one.  A build lists the resources, waits for their locks and      *)
(* reads them; the locks are dropped before the result is stored, and an   *)
(* error is stored like a schema.                                          *)
(***************************************************************************)
EXTENDS GraphqlSchemas

CONSTANTS
    Reader,      \* GraphQL requests
    NotCached,   \* the cache is empty
    LoadFailed   \* a listed resource could not be read

VARIABLES
    graphql,     \* AppState.graphql_store
    builds,      \* how far each request has got
    overtaken    \* the cached schema was read before an invalidation

IdleBuild == [pc |-> "idle", names |-> {}, built |-> NotCached, late |-> FALSE]

\* No schema in the store: the resources are listed.
ListResources(g, names) ==
    /\ builds[g].pc = "idle"
    /\ graphql = NotCached
    /\ builds' = [builds EXCEPT ![g] = [IdleBuild EXCEPT !.pc = "read", !.names = names]]
    /\ UNCHANGED <<graphql, overtaken>>

\* build_schema with the locks of the listed resources.
ReadResources(g, documents, tables, overlay) ==
    LET names == builds[g].names
        listed == [t \in names \cap DOMAIN documents |-> documents[t]]
    IN  /\ builds[g].pc = "read"
        /\ builds' = [builds EXCEPT
               ![g].pc = "store",
               ![g].built = IF names \subseteq DOMAIN documents
                            THEN BuildSchema(listed, tables, overlay) ELSE LoadFailed]
        /\ UNCHANGED <<graphql, overtaken>>

\* Whoever comes first keeps the place.
StoreSchema(g) ==
    /\ builds[g].pc = "store"
    /\ IF graphql = NotCached
       THEN graphql' = builds[g].built /\ overtaken' = builds[g].late
       ELSE UNCHANGED <<graphql, overtaken>>
    /\ builds' = [builds EXCEPT ![g] = IdleBuild]

\* Mutant: only a schema is taken out, an error stays.
InvalidateSchema ==
    /\ graphql' = IF graphql \in {NameConflict, LoadFailed} THEN graphql ELSE NotCached
    /\ overtaken' = FALSE
    /\ builds' = [g \in Reader |->
                     IF builds[g].pc = "idle" THEN builds[g]
                     ELSE [builds[g] EXCEPT !.late = TRUE]]

\* invalidate_graphql_schema
Invalidate ==
    /\ graphql' = NotCached
    /\ overtaken' = FALSE
    /\ builds' = [g \in Reader |->
                     IF builds[g].pc = "idle" THEN builds[g]
                     ELSE [builds[g] EXCEPT !.late = TRUE]]
=============================================================================
