------------------------------ MODULE LiveServer ------------------------------
(***************************************************************************)
(* What follows a change: the GraphQL schema is taken out of the cache and *)
(* events are sent, while other changes, GraphQL requests and the overview *)
(* page go on.  Changes are those of SchemaServer, or in clone mode those  *)
(* of CloneProxy, which replace the requests that write.                   *)
(***************************************************************************)
EXTENDS CloneProxy, GraphqlCache, EventBus

CONSTANTS
    Handler,     \* requests that change something
    Watcher,     \* the watcher thread
    NoLock,      \* the change is made without the lock of a resource
    MaxChanges   \* bound: how many changes are made

ASSUME MaxChangesAssumption == MaxChanges \in Nat
ASSUME NoLockAssumption == NoLock \notin Table

VARIABLES
    cloneMode,   \* config.clone_proxy
    audience,    \* bound: GraphQL clients or a page look at what changes,
                 \* which have nothing in common, and then one fetch is made
                 \* at a time; or nobody does
    duties,      \* what remains to be done after a change
    changes      \* how many were made

liveVars == <<vars, cloneVars, graphql, builds, overtaken, backlog, page,
              cloneMode, audience, duties, changes>>

Actor == Handler \cup Client \cup {Watcher}

config == <<cloneMode, audience>>

NoDuty == [step |-> "none", held |-> NoLock, events |-> 0]

LiveTypeOK ==
    /\ DOMAIN documents \subseteq Table
    /\ cloneMode \in BOOLEAN /\ audience \in {"graphql", "page", "none"}
    /\ \A c \in Client : fetches[c].pc \in {"idle", "answer", "choose", "store"}
    /\ \A g \in Reader : builds[g].pc \in {"idle", "read", "store"}
    /\ \A g \in Reader : builds[g].names \subseteq Table
    /\ overtaken \in BOOLEAN
    /\ backlog \in 0..Capacity + 1
    /\ page \in Page
    /\ duties \in [Actor -> [step : {"none", "invalidate", "emit"},
                             held : Table \cup {NoLock}, events : 0..3]]
    /\ changes \in 0..MaxChanges

LiveInit ==
    /\ StartsWith(Folder)
    /\ CloneInit
    /\ graphql = NotCached
    /\ builds = [g \in Reader |-> IdleBuild]
    /\ overtaken = FALSE
    /\ backlog = 0
    /\ audience \in {"graphql", "page", "none"}
    /\ page = IF audience = "page" THEN FreshPage ELSE ClosedPage
    /\ cloneMode \in BOOLEAN
    /\ audience = "none" => cloneMode
    /\ duties = [a \in Actor |-> NoDuty]
    /\ changes = 0

-----------------------------------------------------------------------------
\* Changes and what follows

\* The lock of a resource is kept until the events are sent.
IsHeld(t) == \E a \in Actor : duties[a].held = t

\* After a change: a merge that failed ends the request there.
Begin(a, held, events) ==
    /\ duties[a] = NoDuty
    /\ changes < MaxChanges
    /\ changes' = changes + 1
    /\ Changed(IsCurrent')
    /\ duties' = IF ~IsCurrent' THEN duties
                 ELSE [duties EXCEPT ![a] =
                          [step |-> "invalidate", held |-> held, events |-> events]]
    /\ UNCHANGED <<graphql, builds, overtaken, config>>

\* POST /schema only announces that the file was written.
BeginSave(a) ==
    /\ duties[a] = NoDuty
    /\ changes < MaxChanges
    /\ changes' = changes + 1
    /\ duties' = [duties EXCEPT ![a] = [step |-> "emit", held |-> NoLock, events |-> 1]]
    /\ UNCHANGED <<graphql, builds, overtaken, backlog, page, config>>

\* The requests of router.rs that are there unless a server is cloned.
LocalChange(a) ==
    /\ ~cloneMode
    /\ \/ \E req \in Request :
              ~IsHeld(req.table) /\ UpdateItem(req) /\ Begin(a, req.table, 3)
       \/ \E t \in Transient :
              /\ ~IsHeld(t)
              /\ CreateResource(t) \/ DeleteResource(t)
              /\ Begin(a, t, 3)
       \/ \E declared \in Overlays : SaveDeclaredSchema(declared) /\ Begin(a, NoLock, 2)
       \/ InferAndSaveSchema /\ Begin(a, NoLock, 2)
       \/ SaveSchema /\ BeginSave(a)
    /\ UNCHANGED cloneVars

\* (What was stored is no longer what editors left alone.)
WatcherChange ==
    /\ \E t \in Table : EditFile(t) \/ LoadSchemaFile
    /\ Begin(Watcher, NoLock, 3)
    /\ UNCHANGED <<remote, fetches>>
    /\ stored' = {}

CloneChange(c) ==
    /\ cloneMode
    /\ ~IsHeld(Cloned)
    /\ Store(c)
    /\ Begin(c, Cloned, 3)

InvalidateCache(a) ==
    /\ duties[a].step = "invalidate"
    /\ Invalidate
    /\ duties' = [duties EXCEPT ![a].step = "emit"]
    /\ UNCHANGED <<vars, cloneVars, backlog, page, config, changes>>

EmitEvents(a) ==
    /\ duties[a].step = "emit"
    /\ Emit(duties[a].events)
    /\ duties' = [duties EXCEPT ![a] = NoDuty]
    /\ UNCHANGED <<vars, cloneVars, graphql, builds, overtaken, config, changes>>

-----------------------------------------------------------------------------
\* Requests that change nothing, and the page

CloneStep(c) ==
    /\ cloneMode
    /\ duties[c] = NoDuty
    /\ \/ \E request \in Fetch :
              /\ audience = "none" \/ \A d \in Client : fetches[d] = IdleFetch
              /\ request.kind = "item" /\ ~request.refresh => ~IsHeld(Cloned)
              /\ Ask(c, request)
       \/ Answer(c)
       \/ Choose(c)
       \/ ~IsHeld(Cloned) /\ Skip(c)
    /\ UNCHANGED <<vars, graphql, builds, overtaken, backlog, page, config, duties, changes>>

ChangeRemote ==
    /\ cloneMode
    /\ RemoteChange
    /\ UNCHANGED <<vars, graphql, builds, overtaken, backlog, page, config, duties, changes>>

\* graphql_schema; the locks of what was listed are taken before it is read.
ServeGraphql(g) ==
    /\ audience = "graphql"
    /\ \/ ListResources(g, DOMAIN documents)
       \/ /\ \A t \in builds[g].names : ~IsHeld(t)
          /\ ReadResources(g, documents, merged, overlay)
       \/ StoreSchema(g)
    /\ UNCHANGED <<vars, cloneVars, backlog, page, config, duties, changes>>

ShowPage ==
    /\ Listen
    /\ UNCHANGED <<vars, cloneVars, graphql, builds, overtaken, config, duties, changes>>

LiveNext ==
    \/ \E a \in Handler : LocalChange(a)
    \/ \E c \in Client : CloneChange(c) \/ CloneStep(c)
    \/ ChangeRemote
    \/ WatcherChange
    \/ \E a \in Actor : InvalidateCache(a) \/ EmitEvents(a)
    \/ \E g \in Reader : ServeGraphql(g)
    \/ ShowPage

LiveSpec == LiveInit /\ [][LiveNext]_liveVars

-----------------------------------------------------------------------------
\* Properties

NoInvalidationPending == \A a \in Actor : duties[a].step # "invalidate"

\* The cached GraphQL schema is the one that the resources and their schema
\* have now: every change takes the old one out (docs/testing/test-matrix.json,
\* "schema and data edits invalidate cached GraphQL schema").
CachedIsCurrent ==
    /\ NoInvalidationPending
    /\ IsCurrent
    /\ graphql # NotCached
    => graphql = BuildSchema(documents, merged, overlay)

\* Whichever change it was, and though an error may have been cached, the
\* cached schema is the current one, unless its resources were read before a
\* change that was finished before it was stored (graphql_schema,
\* invalidate_graphql_schema).
CachedUnlessOvertaken == ~overtaken => CachedIsCurrent

\* Once the page has received what there was, however many events it missed,
\* it shows the current state, or is about to load it, unless a change failed
\* halfway and was not announced (broadcast channel, get_events, the page).
ViewIsCurrent ==
    /\ page.live
    /\ backlog = 0
    /\ ~page.timer
    /\ \A a \in Actor : duties[a] = NoDuty
    => (page.behind => page.untold)
=============================================================================
